---- MODULE Spec2Model ----
(***************************************************************************)
(* A state-machine model of the Franktorio pressure scanner: the log       *)
(* tailer (Stalker), the line parser, the backend session calls, the       *)
(* deduplicating reporting engine, the scan loop and the relay client.     *)
(*                                                                         *)
(* Text is modelled as sequences of tokens.  A token stands for a run of   *)
(* bytes that the game client writes in one piece:                         *)
(*   "NL"  a newline                "SP"  a blank                          *)
(*   "RN"  the text "Room Name"     "DC"  the disconnect marker text       *)
(*         (two words)                    "[FLog::Network] Client:Disconnect" *)
(*   any other token is a run of non-blank characters (part of a word).    *)
(* A byte offset into a file is the number of tokens before it.            *)
(***************************************************************************)
EXTENDS Integers, Sequences, FiniteSets, TLC

\* Python's None, where the other values are strings or records.
NULL == "None"

VARIABLES
    \* config/vars.py: the session_config singleton
    session_id, session_password,
    \* src/api/scanner.py: the last _request_session / _end_session call
    \* (operation, credentials before it, backend response, outcome)
    api_last,
    \* two threads on session_config: the writer (set_session / clear_session,
    \* statement by statement) and the reader (get_session)
    w_pc, w_arg, g_pc, g_id, g_result,
    \* the log directory: files[p] is the content of the file at path p
    files,
    \* src/app/scanner/stalker.py: Stalker.file_position
    file_position,
    \* the tailer observed from outside: the offset before the last
    \* observe_logfile_changes call, the list it returned, and the
    \* concatenation of all lists returned so far
    tail_prev, tail_ret, tail_all,
    \* src/app/scanner/parser.py: the module global _disconect_switch
    disconect_switch,
    \* the parser observed from outside: the summary the last parse_log_lines
    \* call returned and, per call so far, the number of disconnect-marker
    \* lines it was given (m) and the disconnected flag it returned (d)
    parse_ret, parse_hist,
    \* the last parse_log_lines call of SpecLocate: its lines, the answers of
    \* the geolocation service, the switch before it and the summary it
    \* returned
    parse_call,
    \* src/app/scanner/scanner.py: Scanner.has_session, Scanner.latest_rooms
    has_session, latest_rooms,
    \* the last report_new_rooms or reset call observed from outside: its
    \* argument, has_session and latest_rooms before it, the session request
    \* it made, its steps (one per room processed) and what it returned
    rep,
    \* src/api/websocket.py: where websocket_loop stands, the connection
    \* attempts made and the sleeps taken by _connect_scanner_websocket in
    \* this run, the module global _active_websocket (NoSocket for None, or
    \* the number of the connection it refers to), and the events sent on the
    \* connection
    ws_pc, ws_attempts, ws_delays, active_websocket, ws_sent,
    \* the number of this run of websocket_loop, which names the connection
    \* object it creates, whether that connection is open, and the message
    \* the receive loop dispatched in the step just taken (NoEvent after every
    \* other step)
    ws_conn, ws_open, ws_event,
    \* src/app/gui/sync_window.py: SyncWindow.players, .encountered_rooms and
    \* the keys of .image_map
    players, encountered_rooms, image_map,
    \* src/app/gui/windowed.py: MainWindow.is_syncing
    is_syncing,
    \* src/app/scanner/scanner.py: Scanner.alive, where the scanner thread
    \* stands ("none" before the first start), Scanner.current_path, the
    \* local _no_new_lines_accumulator of scanner_loop, what the start and
    \* stop buttons, the room display and the server display were last told
    alive, s_pc, current_path, no_new_lines_accumulator,
    start_button, stop_button, ui_room_info, ui_server_info,
    \* what the step just taken did, when it was a tick of the scan loop
    tick,
    \* the room lines (path, offset) handed to the backend so far, and those
    \* handed to it by more than one tick
    handed, twice,
    \* src/app/scanner/scanner.py: the signal attributes set on the Scanner so
    \* far, where version_check_loop stands, and the values emitted on
    \* version_check_ready
    signals, vc_pc, version_emitted,
    \* src/app/scanner/log_finder.py: the module constants PLATFORM and
    \* USER_LOG_PATH (NULL before the module is imported), what the file
    \* system holds at the user's path and at the platform's default log
    \* directory, and what the last get_latest_log_file_path call returned
    PLATFORM, USER_LOG_PATH, fs_user, fs_default, find_ret,
    \* src/app/scanner/scanner.py: the last of start() and stop() the user
    \* called ("none" before the first), and the number of scanner threads
    \* that have been started and have not ended
    command, scan_threads

sessVars == <<session_id, session_password>>
apiVars == <<api_last>>
raceVars == <<w_pc, w_arg, g_pc, g_id, g_result>>
fsVars == <<files>>
tailVars == <<file_position, tail_prev, tail_ret, tail_all>>
parseVars == <<disconect_switch, parse_ret, parse_hist, parse_call>>
repVars == <<has_session, latest_rooms, rep>>
wsVars == <<ws_pc, ws_attempts, ws_delays, active_websocket, ws_sent, ws_conn,
           ws_open, ws_event>>
syncVars == <<players, encountered_rooms, image_map, is_syncing>>
relayVars == <<wsVars, syncVars>>
scanVars == <<alive, s_pc, current_path, no_new_lines_accumulator,
              start_button, stop_button, ui_room_info, ui_server_info, tick,
              handed, twice>>

vcVars == <<signals, vc_pc, version_emitted>>
findVars == <<PLATFORM, USER_LOG_PATH, fs_user, fs_default, find_ret>>
cmdVars == <<command, scan_threads>>
vars == <<sessVars, apiVars, raceVars, fsVars, tailVars, parseVars, repVars,
          relayVars, scanVars, vcVars, findVars, cmdVars>>

(***************************************************************************)
(* Bounds of the model.                                                    *)
(***************************************************************************)
\* Distinct sessions the backend hands out (session k has id k, password k).
MaxSid == 2

Sids == 1..MaxSid

\* SessionConfig.__init__: session_id = session_password = None.
NoCred == 0

\* Tokens a log file may hold after MaxFile appends (see TailAppend).
MaxFile == 5

\* parse_log_lines calls in SpecParse, and lines per call.
MaxCalls == 3
MaxBatchLines == 3

\* Distinct room names in SpecDedup (one more than the history holds).
NumRooms == 6

\* Rooms per report_new_rooms call in SpecReport.
MaxBatch == 2

\* Events sent on one relay connection in SpecRelay.
MaxSent == 3

\* Lines per parse_log_lines call in SpecLocate.
MaxLocateLines == 2

\* Lines the game client writes to the log file in SpecCap (more than one
\* observe_logfile_changes call reads).
MaxCapLines == 52

\* Sync sessions started from the UI in SpecRelay.
MaxSync == 2

\* Lines the game client writes to the log files in SpecScan.
MaxScanLines == 2

\* Lines the game client writes to the log file in SpecStop.
MaxStopLines == 1

\* The log files of the directory.
Paths == {"p1", "p2"}

(***************************************************************************)
(* src/api/scanner.py: _request_session, _end_session                      *)
(***************************************************************************)
\* What the backend (or the network) answers to one POST:
\*   neterr     requests.post raises requests.RequestException
\*   badjson    resp.json() raises ValueError (the body is not JSON)
\*   nonobject  the body is JSON but not an object (a list, null, a number)
\*   object     a JSON object; keys is the set of keys it carries
Responses ==
    {[kind |-> k, keys |-> {}, sid |-> NoCred, success |-> FALSE] :
        k \in {"neterr", "badjson", "nonobject"}}
    \cup
    {[kind |-> "object", keys |-> ks, sid |-> s, success |-> ok] :
        ks \in SUBSET {"session_id", "password", "success"},
        s \in Sids, ok \in BOOLEAN}

\* data.get("success", False)
GetSuccess(resp) == IF "success" \in resp.keys THEN resp.success ELSE FALSE

\* The outcome of one call: the credentials it leaves, what it returns, and
\* whether an exception leaves the function ("raised": ret is then unused).
Outcome(id, pw, ret, raised) ==
    [id |-> id, pw |-> pw, ret |-> ret, raised |-> raised]

\* _request_session (lines 27-42); id, pw: the stored credentials before.
request_session(id, pw, resp) ==
    CASE resp.kind \in {"neterr", "badjson"} ->
            \* except (requests.RequestException, ValueError, KeyError)
            Outcome(id, pw, FALSE, FALSE)
      [] resp.kind = "nonobject" ->
            \* data["session_id"] on a non-object: TypeError, not caught
            Outcome(id, pw, FALSE, TRUE)
      [] OTHER ->
            IF {"session_id", "password"} \subseteq resp.keys
            THEN \* set_session runs before the success flag is looked at
                 Outcome(resp.sid, resp.sid, GetSuccess(resp), FALSE)
            ELSE \* KeyError while the arguments are evaluated: caught
                 Outcome(id, pw, FALSE, FALSE)

\* _end_session with a clear_session() after an accepted request.
end_session_ClearsOnSuccess(id, pw, resp) ==
    CASE resp.kind \in {"neterr", "badjson"} -> Outcome(id, pw, FALSE, FALSE)
      [] resp.kind = "nonobject" -> Outcome(id, pw, FALSE, TRUE)
      [] OTHER -> IF GetSuccess(resp)
                  THEN Outcome(NoCred, NoCred, TRUE, FALSE)
                  ELSE Outcome(id, pw, FALSE, FALSE)

\* _end_session (lines 44-59): posts the stored credentials, stores nothing.
end_session(id, pw, resp) ==
    CASE resp.kind \in {"neterr", "badjson"} -> Outcome(id, pw, FALSE, FALSE)
      [] resp.kind = "nonobject" ->
            \* data.get on a non-object: AttributeError / TypeError, not caught
            Outcome(id, pw, FALSE, TRUE)
      [] OTHER -> Outcome(id, pw, GetSuccess(resp), FALSE)

NoCall == [op |-> "none", pre_id |-> NoCred, pre_pw |-> NoCred,
           resp |-> [kind |-> "neterr", keys |-> {}, sid |-> NoCred, success |-> FALSE],
           ret |-> FALSE, raised |-> FALSE]

\* One request_session() call against an arbitrary backend answer.
ApiRequestSession ==
    \E resp \in Responses :
        LET o == request_session(session_id, session_password, resp) IN
        /\ session_id' = o.id
        /\ session_password' = o.pw
        /\ api_last' = [op |-> "request_session", pre_id |-> session_id,
                        pre_pw |-> session_password, resp |-> resp,
                        ret |-> o.ret, raised |-> o.raised]
        /\ UNCHANGED <<raceVars, fsVars, tailVars, parseVars, repVars, relayVars, scanVars, vcVars, findVars, cmdVars>>

\* One end_session() call against an arbitrary backend answer.
ApiEndSession ==
    \E resp \in Responses :
        LET o == end_session(session_id, session_password, resp) IN
        /\ session_id' = o.id
        /\ session_password' = o.pw
        /\ api_last' = [op |-> "end_session", pre_id |-> session_id,
                        pre_pw |-> session_password, resp |-> resp,
                        ret |-> o.ret, raised |-> o.raised]
        /\ UNCHANGED <<raceVars, fsVars, tailVars, parseVars, repVars, relayVars, scanVars, vcVars, findVars, cmdVars>>

\* SessionConfig.clear_session (config/vars.py lines 59-62), as reset() calls it.
ApiClearSession ==
    /\ session_id' = NoCred
    /\ session_password' = NoCred
    /\ api_last' = [NoCall EXCEPT !.op = "clear_session", !.pre_id = session_id,
                                  !.pre_pw = session_password]
    /\ UNCHANGED <<raceVars, fsVars, tailVars, parseVars, repVars, relayVars, scanVars, vcVars, findVars, cmdVars>>

(***************************************************************************)
(* config/vars.py: SessionConfig, statement by statement.  set_session and *)
(* clear_session are two attribute stores, get_session two attribute       *)
(* loads; the class holds no lock, so the stores of the thread that writes *)
(* (the worker running _request_session, the scan loop running reset) and  *)
(* the loads of a thread that reads (the GUI thread running                *)
(* new_room_encounter -> _get_room_info) interleave freely.                *)
(***************************************************************************)
\* set_session(k, k) for a session k, or clear_session() (k = NoCred), begins.
W_Begin ==
    /\ w_pc = "idle"
    /\ \E k \in Sids \cup {NoCred} : w_arg' = k
    /\ w_pc' = "store_id"
    /\ UNCHANGED <<fsVars, tailVars, parseVars, repVars, sessVars, apiVars, g_pc, g_id, g_result, relayVars, scanVars, vcVars, findVars, cmdVars>>

\* self.session_id = ...
W_StoreId ==
    /\ w_pc = "store_id"
    /\ session_id' = w_arg
    /\ w_pc' = "store_pw"
    /\ UNCHANGED <<fsVars, tailVars, parseVars, repVars, session_password, apiVars, w_arg, g_pc, g_id, g_result, relayVars, scanVars, vcVars, findVars, cmdVars>>

\* self.session_password = ...
W_StorePw ==
    /\ w_pc = "store_pw"
    /\ session_password' = w_arg
    /\ w_pc' = "idle"
    /\ UNCHANGED <<fsVars, tailVars, parseVars, repVars, session_id, apiVars, w_arg, g_pc, g_id, g_result, relayVars, scanVars, vcVars, findVars, cmdVars>>

\* get_session() is entered.
G_Begin ==
    /\ g_pc = "idle"
    /\ g_pc' = "load_id"
    /\ UNCHANGED <<fsVars, tailVars, parseVars, repVars, sessVars, apiVars, w_pc, w_arg, g_id, g_result, relayVars, scanVars, vcVars, findVars, cmdVars>>

\* the load of self.session_id
G_LoadId ==
    /\ g_pc = "load_id"
    /\ g_id' = session_id
    /\ g_pc' = "load_pw"
    /\ UNCHANGED <<fsVars, tailVars, parseVars, repVars, sessVars, apiVars, w_pc, w_arg, g_result, relayVars, scanVars, vcVars, findVars, cmdVars>>

\* the load of self.session_password, and the return of the pair
G_LoadPw ==
    /\ g_pc = "load_pw"
    /\ g_result' = <<g_id, session_password>>
    /\ g_pc' = "idle"
    /\ UNCHANGED <<fsVars, tailVars, parseVars, repVars, sessVars, apiVars, w_pc, w_arg, g_id, relayVars, scanVars, vcVars, findVars, cmdVars>>

(***************************************************************************)
(* src/app/scanner/stalker.py: Stalker.observe_logfile_changes             *)
(***************************************************************************)
MAX_READ_LINES == 50

IsSpace(t) == t \in {"SP", "NL"}

\* file.readline() at offset pos: the offset just after the line read, which
\* ends with the first newline after pos or, failing one, with the file.
RECURSIVE LineEnd(_, _)
LineEnd(f, pos) ==
    IF pos >= Len(f) THEN Len(f)
    ELSE IF f[pos + 1] = "NL" THEN pos + 1
    ELSE LineEnd(f, pos + 1)

\* The loop of at most n readline() calls from offset pos (lines 41-46): the
\* raw lines read and file.tell() after them.
RECURSIVE ReadLines(_, _, _)
ReadLines(f, pos, n) ==
    IF n = 0 \/ pos >= Len(f) THEN [lines |-> <<>>, pos |-> pos]
    ELSE LET e == LineEnd(f, pos)
             rest == ReadLines(f, e, n - 1)
         IN [lines |-> <<SubSeq(f, pos + 1, e)>> \o rest.lines, pos |-> rest.pos]

\* str.strip(): leading and trailing whitespace removed.
RECURSIVE LStrip(_)
LStrip(l) == IF l # <<>> /\ IsSpace(Head(l)) THEN LStrip(Tail(l)) ELSE l

RECURSIVE RStrip(_)
RStrip(l) ==
    IF l # <<>> /\ IsSpace(l[Len(l)]) THEN RStrip(SubSeq(l, 1, Len(l) - 1)) ELSE l

Strip(l) == RStrip(LStrip(l))

\* [line.strip() for line in new_lines if line.strip()] (line 48)
RECURSIVE FilterLines(_)
FilterLines(ls) ==
    IF ls = <<>> THEN <<>>
    ELSE LET l == Strip(Head(ls)) IN
         IF l = <<>> THEN FilterLines(Tail(ls)) ELSE <<l>> \o FilterLines(Tail(ls))

\* observe_logfile_changes reading to the end of the file whatever its size.
observe_logfile_changes_NoCap(f, pos) ==
    LET r == ReadLines(f, pos, Len(f))
    IN [lines |-> FilterLines(r.lines), pos |-> r.pos]

\* observe_logfile_changes (lines 38-58) on content f with self.file_position
\* = pos: the list returned and the new file_position.
observe_logfile_changes(f, pos) ==
    LET r == ReadLines(f, pos, MAX_READ_LINES)
    IN [lines |-> FilterLines(r.lines), pos |-> r.pos]

\* The tokens the game client appends in SpecTail, one at a time.
TailTokens == {"A", "SP", "NL"}

\* The client appends to the log file (the file only grows).
TailAppend ==
    /\ Len(files["p1"]) < MaxFile
    /\ \E t \in TailTokens : files' = [files EXCEPT !["p1"] = Append(@, t)]
    /\ UNCHANGED <<sessVars, apiVars, raceVars, tailVars, parseVars, repVars, relayVars, scanVars, vcVars, findVars, cmdVars>>

\* The k-th line the game client writes in SpecCap: a word, another word or
\* a blank line, in turn.
CapLine(k) ==
    CASE k % 3 = 1 -> <<"A", "NL">>
      [] k % 3 = 2 -> <<"B", "NL">>
      [] OTHER -> <<"SP", "NL">>

\* Complete lines in the first n tokens of f.
NewlinesIn(f, n) == Cardinality({i \in 1..n : f[i] = "NL"})

\* The client appends one complete line to the log file.
CapAppend ==
    /\ NewlinesIn(files["p1"], Len(files["p1"])) < MaxCapLines
    /\ files' = [files EXCEPT !["p1"] =
                    @ \o CapLine(NewlinesIn(@, Len(@)) + 1)]
    /\ UNCHANGED <<sessVars, apiVars, raceVars, tailVars, parseVars, repVars, relayVars, scanVars, vcVars, findVars, cmdVars>>

\* One observe_logfile_changes call of the one Stalker on the file.
TailObserve ==
    LET r == observe_logfile_changes(files["p1"], file_position) IN
    /\ file_position' = r.pos
    /\ tail_prev' = file_position
    /\ tail_ret' = r.lines
    /\ tail_all' = tail_all \o r.lines
    /\ UNCHANGED <<sessVars, apiVars, raceVars, fsVars, parseVars, repVars, relayVars, scanVars, vcVars, findVars, cmdVars>>

(***************************************************************************)
(* src/app/scanner/parser.py                                               *)
(***************************************************************************)
\* str.lower on one token (line 45).  RN, DC and UD are the markers "room
\* name", "[flog::network] client:disconnect" and "udmux" in a spelling with
\* capitals, rn, dc and ud the same in small letters; every other piece is
\* taken to be in small letters already.
lower(t) ==
    CASE t = "RN" -> "rn"
      [] t = "DC" -> "dc"
      [] t = "UD" -> "ud"
      [] OTHER -> t

HasRoomName_CaseSensitive(line) == \E i \in 1..Len(line) : line[i] = "rn"

\* "room name" in u_line (line 47)
HasRoomName(line) == \E i \in 1..Len(line) : lower(line[i]) = "rn"

\* "udmux" in u_line (line 51)
HasUdmux(line) == \E i \in 1..Len(line) : lower(line[i]) = "ud"

\* "[flog::network] client:disconnect" in u_line (line 56)
HasDisconnect(line) == \E i \in 1..Len(line) : lower(line[i]) = "dc"

\* len(s.split()): a word begins at each piece that follows a blank or the
\* start, and the markers for "room name" and "... client:disconnect" hold a
\* blank themselves.
WordCount(s) ==
    Cardinality({i \in 1..Len(s) :
                    ~IsSpace(s[i]) /\ (i = 1 \/ IsSpace(s[i - 1]))})
    + Cardinality({i \in 1..Len(s) : lower(s[i]) \in {"rn", "dc"}})

\* get_server_location_from_log (src/api/location.py lines 7-43) on the
\* line in small letters; answer is what the geolocation service gives for
\* the address (None for an error or a status other than 200).  No request
\* is made when "udmux" is not a word of its own or fewer than three words
\* follow it.
get_server_location_from_log(u_line, answer) ==
    LET at == {i \in 1..Len(u_line) :
                 /\ u_line[i] = "ud"
                 /\ i = 1 \/ IsSpace(u_line[i - 1])
                 /\ i = Len(u_line) \/ IsSpace(u_line[i + 1])}
    IN IF at = {} THEN NULL
       ELSE LET i == CHOOSE k \in at : \A j \in at : k <= j
            IN IF WordCount(SubSeq(u_line, i + 1, Len(u_line))) >= 3
               THEN answer ELSE NULL

\* line.split()[-1]: the last whitespace-separated word of a stripped line, as
\* the sequence of its pieces.  The tokens RN and DC hold a blank: their last
\* word begins the word.
RECURSIVE LastWord(_)
LastWord(l) ==
    IF l = <<>> THEN <<>>
    ELSE LET t == l[Len(l)] IN
         CASE IsSpace(t) -> <<>>
           [] t = "RN" -> <<"Name">>
           [] t = "rn" -> <<"name">>
           [] t = "DC" -> <<"Client:Disconnect">>
           [] t = "dc" -> <<"client:disconnect">>
           [] OTHER -> LastWord(SubSeq(l, 1, Len(l) - 1)) \o <<t>>

\* _get_roomname_from_logline (lines 9-21)
get_roomname_from_logline(line) == LastWord(line)

DisconnectStep_NoToggle(sw, d) == [disconnected |-> TRUE, switch |-> FALSE]

\* The disconnect branch (lines 57-61) on a marker line: sw is
\* _disconect_switch, d is summary["disconnected"] so far.
DisconnectStep(sw, d) ==
    IF sw THEN [disconnected |-> TRUE, switch |-> FALSE]
    ELSE [disconnected |-> d, switch |-> TRUE]

\* The loop over the lines (lines 44-61), from the summary so far.  geo
\* holds, line by line, the answer of the geolocation service should the
\* line be looked up; summary.lookups lists the lines that were looked up
\* and summary.seen counts the lines done.
RECURSIVE ParseLoop(_, _, _, _)
ParseLoop(lines, sw, summary, geo) ==
    IF lines = <<>>
    THEN [rooms |-> summary.rooms, location |-> summary.location,
          disconnected |-> summary.disconnected, switch |-> sw,
          lookups |-> summary.lookups]
    ELSE LET line == Head(lines)
             u_line == [i \in 1..Len(line) |-> lower(line[i])]
             n == summary.seen + 1
             rooms1 == IF HasRoomName(line)
                       THEN Append(summary.rooms, get_roomname_from_logline(line))
                       ELSE summary.rooms
             look == HasUdmux(line) /\ summary.location = NULL
             location == IF look
                         THEN get_server_location_from_log(u_line, Head(geo))
                         ELSE summary.location
             ds == IF HasDisconnect(line)
                   THEN DisconnectStep(sw, summary.disconnected)
                   ELSE [disconnected |-> summary.disconnected, switch |-> sw]
         IN ParseLoop(Tail(lines), ds.switch,
                      [rooms |-> rooms1, location |-> location,
                       disconnected |-> ds.disconnected,
                       lookups |-> IF look THEN Append(summary.lookups, n)
                                   ELSE summary.lookups,
                       seen |-> n],
                      Tail(geo))

\* parse_log_lines (lines 23-63) with _disconect_switch = sw: the summary
\* returned, and the switch it leaves.
parse_log_lines(lines, sw, geo) ==
    ParseLoop(lines, sw,
              [rooms |-> <<>>, location |-> NULL, disconnected |-> FALSE,
               lookups |-> <<>>, seen |-> 0],
              geo)

\* The geolocation service answers nothing, line by line.
NoGeo(lines) == [i \in 1..Len(lines) |-> NULL]

\* The stripped lines SpecParse feeds the parser.
ParseLineSet == {<<"DC">>, <<"RN", "SP", "A">>, <<"A">>}

RECURSIVE SeqsUpTo(_, _)
SeqsUpTo(S, n) ==
    IF n = 0 THEN {<<>>}
    ELSE LET shorter == SeqsUpTo(S, n - 1) IN
         shorter \cup {Append(q, x) : q \in {t \in shorter : Len(t) = n - 1}, x \in S}

MarkerCount(lines) == Cardinality({i \in 1..Len(lines) : HasDisconnect(lines[i])})

\* One parse_log_lines call on an arbitrary batch of lines.
ParseCall ==
    /\ Len(parse_hist) < MaxCalls
    /\ \E batch \in SeqsUpTo(ParseLineSet, MaxBatchLines) :
        LET r == parse_log_lines(batch, disconect_switch, NoGeo(batch)) IN
        /\ disconect_switch' = r.switch
        /\ parse_ret' = [rooms |-> r.rooms, disconnected |-> r.disconnected]
        /\ UNCHANGED parse_call
        /\ parse_hist' = Append(parse_hist,
                                [m |-> MarkerCount(batch), d |-> r.disconnected])
    /\ UNCHANGED <<sessVars, apiVars, raceVars, fsVars, tailVars, repVars, relayVars, scanVars, vcVars, findVars, cmdVars>>

\* No parse_log_lines call was made yet.
NoParse ==
    [op |-> "none", lines |-> <<>>, geo |-> <<>>, sw |-> TRUE,
     ret |-> [rooms |-> <<>>, location |-> NULL, disconnected |-> FALSE,
              switch |-> TRUE, lookups |-> <<>>]]

\* The stripped lines SpecLocate feeds the parser: two room lines (the
\* marker in two spellings), an address line, a line with the three markers,
\* and a line with none.
LocateLineSet ==
    {<<"RN", "SP", "A">>,
     <<"rn", "SP", "B">>,
     <<"UD", "SP", "x", "SP", "x", "SP", "ip1">>,
     <<"DC", "SP", "ud", "SP", "x", "SP", "x", "SP", "ip2", "SP", "RN", "SP", "C">>,
     <<"A">>}

\* What the geolocation service may answer for the address a line names:
\* nothing, or the place of that address.
GeoAnswers(line) ==
    IF \E i \in 1..Len(line) : line[i] = "ip1" THEN {NULL, "loc1"}
    ELSE IF \E i \in 1..Len(line) : line[i] = "ip2" THEN {NULL, "loc2"}
    ELSE {NULL}

\* One parse_log_lines call on a batch of lines of the three kinds.
LocateCall ==
    \E batch \in SeqsUpTo(LocateLineSet, MaxLocateLines) :
    \E geo \in {g \in [1..Len(batch) -> {NULL, "loc1", "loc2"}] :
                    \A i \in 1..Len(batch) : g[i] \in GeoAnswers(batch[i])} :
        LET r == parse_log_lines(batch, disconect_switch, geo) IN
        /\ disconect_switch' = r.switch
        /\ parse_call' = [op |-> "parse_log_lines", lines |-> batch, geo |-> geo,
                          sw |-> disconect_switch, ret |-> r]
        /\ UNCHANGED <<parse_ret, parse_hist>>
        /\ UNCHANGED <<sessVars, apiVars, raceVars, fsVars, tailVars, repVars, relayVars, scanVars, vcVars, findVars, cmdVars>>

(***************************************************************************)
(* src/api/scanner.py: room_encountered; src/app/scanner/scanner.py:       *)
(* Scanner.report_new_rooms, Scanner.reset                                 *)
(***************************************************************************)
\* A RoomInfo the backend call returned: documented (the backend's record),
\* undocumented (the sentinel named "<room> (Undocumented)"), or none (None).
RoomInfo(room, kind) == [room_name |-> room, kind |-> kind]
NoInfo == [room_name |-> <<>>, kind |-> "none"]

\* How the two backend calls for one room end.  log: _log_room_encounter
\* returns True ("ok") or False ("fail"), or raises on a non-object answer
\* ("raise"); info: _get_room_info returns a RoomInfo, the sentinel, or None,
\* or raises on a non-object answer.
LogResults == {"ok", "fail", "raise"}
InfoResults == {"documented", "undocumented", "none", "raise"}

InfoOf(room, kind) ==
    IF kind \in {"documented", "undocumented"} THEN RoomInfo(room, kind) ELSE NoInfo

room_encountered_Detached(room, log_event, o) ==
    [calls |-> <<"info">>,
     logged |-> FALSE,
     info |-> InfoOf(room, o.info),
     raised |-> o.info = "raise"]

\* room_encountered (lines 131-144): the backend calls it issues, in order of
\* issue, and the pair it returns; o is how the calls end.
room_encountered(room, log_event, o) ==
    IF log_event
    THEN [calls |-> <<"log", "info">>,
          logged |-> o.log = "ok",
          info |-> InfoOf(room, o.info),
          raised |-> o.log = "raise" \/ o.info = "raise"]
    ELSE [calls |-> <<"info">>,
          logged |-> FALSE,
          info |-> InfoOf(room, o.info),
          raised |-> o.info = "raise"]

\* The size latest_rooms is kept to (scanner.py line 133).
MaxLatestRooms == 5

HistoryPush_Newest(hist, room) ==
    IF Len(hist) >= MaxLatestRooms THEN hist ELSE Append(hist, room)

\* latest_rooms.append(room), then pop(0) beyond 5 (lines 132-134).
HistoryPush(hist, room) ==
    LET h == Append(hist, room) IN
    IF Len(h) > MaxLatestRooms THEN Tail(h) ELSE h

InHistory_LastOnly(hist, room) == hist # <<>> /\ hist[Len(hist)] = room

\* room in self.latest_rooms (line 127)
InHistory(hist, room) == \E i \in 1..Len(hist) : hist[i] = room

NeedsSession_Always(has, rooms) == ~has

\* not self.has_session and parsed_rooms (line 113)
NeedsSession(has, rooms) == ~has /\ rooms # <<>>

RECURSIVE ReportLoop_KeepFetched(_, _, _, _, _, _)
ReportLoop_KeepFetched(rooms, outs, has, hist, latest, steps) ==
    IF rooms = <<>>
    THEN [hist |-> hist, ret |-> latest, raised |-> FALSE, steps |-> steps]
    ELSE LET room == Head(rooms)
             new == ~InHistory(hist, room)
             hist1 == IF new THEN HistoryPush(hist, room) ELSE hist
             r == room_encountered(room, new, Head(outs))
             step == [room |-> room, hist |-> hist, has |-> has,
                      logging |-> new, calls |-> r.calls,
                      logged |-> r.logged, info |-> r.info, raised |-> r.raised]
         IN IF r.raised
            THEN [hist |-> hist1, ret |-> latest, raised |-> TRUE,
                  steps |-> Append(steps, step)]
            ELSE ReportLoop_KeepFetched(Tail(rooms), Tail(outs), has, hist1,
                                        IF r.info = NoInfo THEN latest ELSE r.info,
                                        Append(steps, step))

\* The for loop (lines 124-137) over the rooms left, given the per-room
\* outcomes left.  A step records the room, latest_rooms and has_session when
\* the room is looked up, the mode, and the backend calls issued for it.
RECURSIVE ReportLoop(_, _, _, _, _, _)
ReportLoop(rooms, outs, has, hist, latest, steps) ==
    IF rooms = <<>>
    THEN [hist |-> hist, ret |-> latest, raised |-> FALSE, steps |-> steps]
    ELSE LET room == Head(rooms)
             new == ~InHistory(hist, room)
             hist1 == IF new THEN HistoryPush(hist, room) ELSE hist
             r == room_encountered(room, new, Head(outs))
             step == [room |-> room, hist |-> hist, has |-> has,
                      logging |-> new, calls |-> r.calls,
                      logged |-> r.logged, info |-> r.info, raised |-> r.raised]
         IN IF r.raised
            THEN [hist |-> hist1, ret |-> latest, raised |-> TRUE,
                  steps |-> Append(steps, step)]
            ELSE ReportLoop(Tail(rooms), Tail(outs), has, hist1, r.info,
                            Append(steps, step))

\* The session request of a report_new_rooms call: whether it was made, and
\* whether request_session returned true.
NoRequest == [made |-> FALSE, ok |-> FALSE]

\* report_new_rooms (lines 100-139) from has_session = has, latest_rooms =
\* hist and the stored credentials (id, pw); resp is the backend's answer to
\* a session request, outs how the backend calls of each room end.
report_new_rooms(rooms, has, hist, id, pw, resp, outs) ==
    LET req == IF NeedsSession(has, rooms)
               THEN request_session(id, pw, resp)
               ELSE Outcome(id, pw, TRUE, FALSE)
        made == NeedsSession(has, rooms)
    IN  IF made /\ req.raised
        THEN [has |-> has, hist |-> hist, id |-> req.id, pw |-> req.pw,
              ret |-> NoInfo, raised |-> TRUE,
              req |-> [made |-> TRUE, ok |-> FALSE], steps |-> <<>>]
        ELSE IF made /\ ~req.ret
        THEN [has |-> has, hist |-> hist, id |-> req.id, pw |-> req.pw,
              ret |-> NoInfo, raised |-> FALSE,
              req |-> [made |-> TRUE, ok |-> FALSE], steps |-> <<>>]
        ELSE LET has1 == IF made THEN TRUE ELSE has
                 l == ReportLoop(rooms, outs, has1, hist, NoInfo, <<>>)
             IN [has |-> has1, hist |-> l.hist, id |-> req.id, pw |-> req.pw,
                 ret |-> l.ret, raised |-> l.raised,
                 req |-> [made |-> made, ok |-> made /\ req.ret], steps |-> l.steps]

\* RoomInfo(): what _reset_scanner_visuals sends the room display (line 143).
EmptyInfo == [room_name |-> <<>>, kind |-> "empty"]

reset_ClearFirst(has, id, pw, resp) ==
    LET e == end_session(NoCred, NoCred, resp) IN
    IF e.raised
    THEN [hist |-> <<>>, has |-> has, id |-> NoCred, pw |-> NoCred, done |-> FALSE,
          posted |-> <<NoCred, NoCred>>, room_info |-> NoInfo, server_info |-> "none"]
    ELSE [hist |-> <<>>, has |-> FALSE, id |-> NoCred, pw |-> NoCred, done |-> TRUE,
          posted |-> <<NoCred, NoCred>>, room_info |-> EmptyInfo,
          server_info |-> "empty"]

\* reset (lines 146-155) with _reset_scanner_visuals (lines 141-144); resp is
\* the backend's answer to end_session.  done: the reset ran to its end (an
\* exception out of end_session leaves after latest_rooms.clear()); posted:
\* the credentials _end_session read and posted; room_info, server_info: what
\* the two displays were sent (NoInfo, "none": nothing).
reset(has, id, pw, resp) ==
    LET e == end_session(id, pw, resp) IN
    IF e.raised
    THEN [hist |-> <<>>, has |-> has, id |-> id, pw |-> pw, done |-> FALSE,
          posted |-> <<id, pw>>, room_info |-> NoInfo, server_info |-> "none"]
    ELSE [hist |-> <<>>, has |-> FALSE, id |-> NoCred, pw |-> NoCred, done |-> TRUE,
          posted |-> <<id, pw>>, room_info |-> EmptyInfo, server_info |-> "empty"]

NoReport == [op |-> "none", rooms |-> <<>>, pre_has |-> FALSE, pre_hist |-> <<>>,
             pre_id |-> NoCred, pre_pw |-> NoCred, posted |-> <<NoCred, NoCred>>,
             req |-> NoRequest, steps |-> <<>>, ret |-> NoInfo, raised |-> FALSE]

\* The answers to a call that may not be made: one (unused) when it is not.
Asked(made, resps) == IF made THEN resps ELSE {CHOOSE r \in resps : TRUE}

\* One report_new_rooms(rooms) call; resps and outcomes are the backend
\* answers the environment may give.
ReportCall(rooms, resps, outcomes) ==
    \E resp \in Asked(NeedsSession(has_session, rooms), resps) :
    \E outs \in [1..Len(rooms) -> outcomes] :
        LET r == report_new_rooms(rooms, has_session, latest_rooms,
                                  session_id, session_password, resp, outs) IN
        /\ has_session' = r.has
        /\ latest_rooms' = r.hist
        /\ session_id' = r.id
        /\ session_password' = r.pw
        /\ rep' = [NoReport EXCEPT !.op = "report_new_rooms", !.rooms = rooms,
                   !.pre_has = has_session, !.pre_hist = latest_rooms,
                   !.pre_id = session_id, !.pre_pw = session_password,
                   !.req = r.req, !.steps = r.steps, !.ret = r.ret,
                   !.raised = r.raised]
        /\ UNCHANGED <<apiVars, raceVars, fsVars, tailVars, parseVars, relayVars, scanVars, vcVars, findVars, cmdVars>>

\* One reset() call.
ResetCall(resps) ==
    \E resp \in resps :
        LET r == reset(has_session, session_id, session_password, resp) IN
        /\ has_session' = r.has
        /\ latest_rooms' = r.hist
        /\ session_id' = r.id
        /\ session_password' = r.pw
        /\ rep' = [NoReport EXCEPT !.op = "reset", !.pre_has = has_session,
                                   !.pre_hist = latest_rooms,
                                   !.pre_id = session_id,
                                   !.pre_pw = session_password,
                                   !.posted = r.posted, !.raised = ~r.done]
        /\ ui_room_info' = IF r.done THEN r.room_info ELSE ui_room_info
        /\ ui_server_info' = IF r.done THEN r.server_info ELSE ui_server_info
        /\ UNCHANGED <<alive, s_pc, current_path, no_new_lines_accumulator,
                       start_button, stop_button, tick, handed, twice>>
        /\ UNCHANGED <<apiVars, raceVars, fsVars, tailVars, parseVars, relayVars, vcVars, findVars, cmdVars>>

\* A full answer of the backend: every key, the given success flag.
FullResponse(sid, ok) ==
    [kind |-> "object", keys |-> {"session_id", "password", "success"},
     sid |-> sid, success |-> ok]

\* SpecDedup: many room names, one room per call, a backend that answers.
DedupRooms == {<<i>> : i \in 1..NumRooms}
DedupResponses == {FullResponse(1, ok) : ok \in BOOLEAN}
DedupOutcomes == {[log |-> "ok", info |-> "documented"], [log |-> "fail", info |-> "none"]}

DedupReport ==
    \E rooms \in {<<>>} \cup {<<r>> : r \in DedupRooms} :
        ReportCall(rooms, DedupResponses, DedupOutcomes)

DedupReset == ResetCall(DedupResponses)

\* SpecReport: two room names, batches of rooms, every backend answer.
ReportRooms == {<<"A">>, <<"B">>}
ReportResponses ==
    {FullResponse(1, TRUE), FullResponse(1, FALSE),
     [kind |-> "neterr", keys |-> {}, sid |-> NoCred, success |-> FALSE],
     [kind |-> "nonobject", keys |-> {}, sid |-> NoCred, success |-> FALSE]}
ReportOutcomes ==
    {[log |-> "ok", info |-> "documented"], [log |-> "fail", info |-> "documented"],
     [log |-> "fail", info |-> "none"], [log |-> "raise", info |-> "undocumented"]}

ReportBatch ==
    \E rooms \in SeqsUpTo(ReportRooms, MaxBatch) :
        ReportCall(rooms, ReportResponses, ReportOutcomes)

ReportReset == ResetCall(ReportResponses)

(***************************************************************************)
(* src/api/websocket.py: _connect_scanner_websocket, websocket_loop;       *)
(* src/app/gui/sync_window.py: the slots the relay's signals are wired to  *)
(***************************************************************************)
\* for attempt in range(3) (line 30)
CONNECT_ATTEMPTS == 3

Backoff_Linear(attempt) == attempt + 1

\* asyncio.sleep(2 ** attempt) (lines 37, 40)
Backoff(attempt) == 2 ^ attempt

Users == {"u1", "u2"}
RelayRooms == {"A", "B"}

\* SyncWindow.add_player (lines 574-581); a player's value is its
\* current_room, None after add_player, "absent" when not in the map.
add_player(ps, u) == IF ps[u] = "absent" THEN [ps EXCEPT ![u] = NULL] ELSE ps

\* SyncWindow.remove_player (lines 583-587)
remove_player(ps, u) == [ps EXCEPT ![u] = "absent"]

\* SyncWindow.change_player_room (lines 589-598)
change_player_room(ps, u, room) == [ps EXCEPT ![u] = room]

new_room_encounter_Unbounded(rooms, images, room) ==
    IF \E i \in 1..Len(rooms) : rooms[i] = room
    THEN [rooms |-> rooms, images |-> images]
    ELSE [rooms |-> <<room>> \o rooms, images |-> images \cup {room}]

\* SyncWindow.new_room_encounter (lines 600-628): [rooms, images] after it.
new_room_encounter(rooms, images, room) ==
    IF \E i \in 1..Len(rooms) : rooms[i] = room
    THEN [rooms |-> rooms, images |-> images]
    ELSE LET r == <<room>> \o rooms IN
         [rooms |-> IF Len(r) > 6 THEN SubSeq(r, 1, 6) ELSE r,
          images |-> images \cup {room}]

\* for room in loaded_rooms: new_room_encounter(room) (lines 184-185)
RECURSIVE LoadRooms(_, _, _)
LoadRooms(rooms, images, loaded) ==
    IF loaded = <<>> THEN [rooms |-> rooms, images |-> images]
    ELSE LET n == new_room_encounter(rooms, images, Head(loaded))
         IN LoadRooms(n.rooms, n.images, Tail(loaded))

\* for user, user_data in users.items(): ... (lines 188-192); users[u] is the
\* user's current_room ("" when it has none), "absent" when not listed.
PlaceUsers(ps, users) ==
    [u \in Users |->
        IF users[u] = "absent" THEN ps[u]
        ELSE IF users[u] = "" THEN add_player(ps, u)[u]
        ELSE users[u]]

NoUsers == [u \in Users |-> "absent"]

Event(tag, u, room, new, users, loaded) ==
    [event |-> tag, username |-> u, room_name |-> room, is_new |-> new,
     users |-> users, loaded_rooms |-> loaded]

\* No message was dispatched in the step just taken.
NoEvent == Event("none", NULL, NULL, FALSE, NoUsers, <<>>)

\* The inbound messages of SpecRelay: username is the "username" (joined,
\* left) or the "reported_by" (encounter) of the message, None when absent.
RelayEvents ==
    {Event(t, u, NULL, FALSE, NoUsers, <<>>) : t \in {"joined", "left"}, u \in Users}
    \cup {Event("encounter", u, r, n, NoUsers, <<>>) :
            u \in Users \cup {NULL}, r \in RelayRooms, n \in BOOLEAN}
    \cup {Event("state", NULL, NULL, FALSE, us, l) :
            us \in {NoUsers, [NoUsers EXCEPT !["u1"] = "A"],
                    [u \in Users |-> IF u = "u1" THEN "" ELSE "B"]},
            l \in {<<>>, <<"B", "A">>}}
    \cup {Event("other", NULL, NULL, FALSE, NoUsers, <<>>)}

Dispatch_UnknownClears(ev, ps, rooms, images) ==
    CASE ev.event = "left" ->
            [players |-> remove_player(ps, ev.username), rooms |-> rooms,
             images |-> images]
      [] ev.event = "joined" ->
            [players |-> add_player(ps, ev.username), rooms |-> rooms,
             images |-> images]
      [] ev.event = "encounter" ->
            LET ps1 == IF ev.username # NULL
                       THEN change_player_room(ps, ev.username, ev.room_name)
                       ELSE ps
                n == IF ev.is_new
                     THEN new_room_encounter(rooms, images, ev.room_name)
                     ELSE [rooms |-> rooms, images |-> images]
            IN [players |-> ps1, rooms |-> n.rooms, images |-> n.images]
      [] ev.event = "state" ->
            LET n == LoadRooms(rooms, images, ev.loaded_rooms)
            IN [players |-> PlaceUsers(ps, ev.users), rooms |-> n.rooms,
                images |-> n.images]
      [] OTHER -> [players |-> NoUsers, rooms |-> <<>>, images |-> images]

\* The match statement of the receive loop (lines 159-194) on one message:
\* the sync window's state after the signals it emits are delivered.
Dispatch(ev, ps, rooms, images) ==
    CASE ev.event = "left" ->
            [players |-> remove_player(ps, ev.username), rooms |-> rooms,
             images |-> images]
      [] ev.event = "joined" ->
            [players |-> add_player(ps, ev.username), rooms |-> rooms,
             images |-> images]
      [] ev.event = "encounter" ->
            LET ps1 == IF ev.username # NULL
                       THEN change_player_room(ps, ev.username, ev.room_name)
                       ELSE ps
                n == IF ev.is_new
                     THEN new_room_encounter(rooms, images, ev.room_name)
                     ELSE [rooms |-> rooms, images |-> images]
            IN [players |-> ps1, rooms |-> n.rooms, images |-> n.images]
      [] ev.event = "state" ->
            LET n == LoadRooms(rooms, images, ev.loaded_rooms)
            IN [players |-> PlaceUsers(ps, ev.users), rooms |-> n.rooms,
                images |-> n.images]
      [] OTHER -> [players |-> ps, rooms |-> rooms, images |-> images]

\* _active_websocket = None (websocket.py line 85)
NoSocket == 0

\* _send_json_via_websocket (lines 44-52): the events sent after it; send
\* raises ConnectionClosed on a connection that is not open, which is caught
\* and answered with False.
send_json_via_websocket(sent, open, ev) ==
    IF open THEN Append(sent, ev) ELSE sent

send_join_room_event_Skipped(sent, open) == sent

\* send_join_room_event (lines 54-60)
send_join_room_event(sent, open) == send_json_via_websocket(sent, open, "join")

\* send_ping (lines 70-75)
send_ping(sent, open) == send_json_via_websocket(sent, open, "ping")

\* The sync button while not syncing (windowed.py on_sync_button_clicked,
\* lines 529-550): websocket_loop is started on a new relay thread
\* (_start_websocket_sync, lines 291-318) and is_syncing is set.
WsStart ==
    /\ ~is_syncing
    /\ ws_conn < MaxSync
    /\ ws_conn' = ws_conn + 1
    /\ is_syncing' = TRUE
    /\ ws_pc' = "connect"
    /\ ws_attempts' = 0
    /\ ws_delays' = <<>>
    /\ ws_sent' = <<>>
    /\ ws_event' = NoEvent
    /\ UNCHANGED <<active_websocket, ws_open, players, encountered_rooms,
                   image_map>>
    /\ UNCHANGED <<sessVars, apiVars, raceVars, fsVars, tailVars, parseVars, repVars, scanVars, vcVars, findVars, cmdVars>>

\* websockets.connect succeeds (lines 32-34): the retries stop.
WsConnectOk ==
    /\ ws_pc = "connect"
    /\ ws_attempts' = ws_attempts + 1
    /\ ws_pc' = "connected"
    /\ ws_open' = TRUE
    /\ ws_event' = NoEvent
    /\ UNCHANGED <<ws_delays, active_websocket, ws_sent, ws_conn, syncVars>>
    /\ UNCHANGED <<sessVars, apiVars, raceVars, fsVars, tailVars, parseVars, repVars, scanVars, vcVars, findVars, cmdVars>>

\* websockets.connect raises (lines 35-40): the sleep of this attempt begins.
WsConnectFail ==
    /\ ws_pc = "connect"
    /\ ws_attempts' = ws_attempts + 1
    /\ ws_delays' = Append(ws_delays, Backoff(ws_attempts))
    /\ ws_pc' = "backoff"
    /\ ws_event' = NoEvent
    /\ UNCHANGED <<active_websocket, ws_sent, ws_conn, ws_open, syncVars>>
    /\ UNCHANGED <<sessVars, apiVars, raceVars, fsVars, tailVars, parseVars, repVars, scanVars, vcVars, findVars, cmdVars>>

\* The sleep ends: the next attempt, or after the last one return None
\* (lines 41-42) and websocket_loop returns (lines 129-131).
WsBackoffDone ==
    /\ ws_pc = "backoff"
    /\ ws_pc' = IF ws_attempts < CONNECT_ATTEMPTS THEN "connect" ELSE "gaveup"
    /\ ws_event' = NoEvent
    /\ UNCHANGED <<ws_attempts, ws_delays, active_websocket, ws_sent, ws_conn,
                   ws_open, syncVars>>
    /\ UNCHANGED <<sessVars, apiVars, raceVars, fsVars, tailVars, parseVars, repVars, scanVars, vcVars, findVars, cmdVars>>

\* The relay or the network ends the connection of this run.
WsDrop ==
    /\ ws_pc \in {"connected", "joined"}
    /\ ws_open
    /\ ws_open' = FALSE
    /\ ws_event' = NoEvent
    /\ UNCHANGED <<ws_pc, ws_attempts, ws_delays, active_websocket, ws_sent,
                   ws_conn, syncVars>>
    /\ UNCHANGED <<sessVars, apiVars, raceVars, fsVars, tailVars, parseVars, repVars, scanVars, vcVars, findVars, cmdVars>>

\* _active_websocket is set, the join event is sent and the ping task is
\* created (lines 133-150); a send that fails is swallowed (lines 44-52).
WsJoin ==
    /\ ws_pc = "connected"
    /\ active_websocket' = ws_conn
    /\ ws_sent' = send_join_room_event(ws_sent, ws_open)
    /\ ws_pc' = "joined"
    /\ ws_event' = NoEvent
    /\ UNCHANGED <<ws_attempts, ws_delays, ws_conn, ws_open, syncVars>>
    /\ UNCHANGED <<sessVars, apiVars, raceVars, fsVars, tailVars, parseVars, repVars, scanVars, vcVars, findVars, cmdVars>>

\* The ping task: five seconds passed, send_ping (lines 143-146).
WsPing ==
    /\ ws_pc = "joined"
    /\ Len(ws_sent) < MaxSent
    /\ ws_sent' = send_ping(ws_sent, ws_open)
    /\ ws_event' = NoEvent
    /\ UNCHANGED <<ws_pc, ws_attempts, ws_delays, active_websocket, ws_conn,
                   ws_open, syncVars>>
    /\ UNCHANGED <<sessVars, apiVars, raceVars, fsVars, tailVars, parseVars, repVars, scanVars, vcVars, findVars, cmdVars>>

\* One message, one of events, is received and dispatched (lines 152-194).
Recv(events) ==
    /\ ws_pc = "joined"
    /\ ws_open
    /\ \E ev \in events :
        LET d == Dispatch(ev, players, encountered_rooms, image_map) IN
        /\ ws_event' = ev
        /\ players' = d.players
        /\ encountered_rooms' = d.rooms
        /\ image_map' = d.images
    /\ UNCHANGED <<ws_pc, ws_attempts, ws_delays, active_websocket, ws_sent,
                   ws_conn, ws_open, is_syncing>>
    /\ UNCHANGED <<sessVars, apiVars, raceVars, fsVars, tailVars, parseVars, repVars, scanVars, vcVars, findVars, cmdVars>>

WsRecv == Recv(RelayEvents)

\* The rooms named by the encounters of SpecRing; with the four rooms of
\* its snapshot that makes one room more than the ring holds.
RingRooms == {"r1", "r5", "r6", "r7"}

\* The inbound messages of SpecRing: encounters reported by u1 or by nobody,
\* and a snapshot of four rooms.
RingEvents ==
    {Event("encounter", "u1", r, n, NoUsers, <<>>) :
        r \in RingRooms, n \in BOOLEAN}
    \cup {Event("encounter", NULL, "r5", TRUE, NoUsers, <<>>)}
    \cup {Event("state", NULL, NULL, FALSE, NoUsers,
                <<"r1", "r2", "r3", "r4">>)}

RingRecv == Recv(RingEvents)

\* recv raises (the connection closed, or a message that is not valid): the
\* ping task is cancelled, _active_websocket cleared, the socket closed
\* (lines 196-208) and websocket_loop returns.  Nothing is told to the UI:
\* the sync window and is_syncing stay as they are.
WsClose ==
    /\ ws_pc = "joined"
    /\ active_websocket' = NoSocket
    /\ ws_pc' = "closed"
    /\ ws_open' = FALSE
    /\ ws_event' = NoEvent
    /\ UNCHANGED <<ws_attempts, ws_delays, ws_sent, ws_conn, syncVars>>
    /\ UNCHANGED <<sessVars, apiVars, raceVars, fsVars, tailVars, parseVars, repVars, scanVars, vcVars, findVars, cmdVars>>

(***************************************************************************)
(* src/app/scanner/scanner.py: Scanner.start, stop, scanner_loop           *)
(***************************************************************************)
\* _no_new_lines_accumulator >= 50 (line 219)
RELOCATE_AFTER == 50

\* What get_latest_log_file_path gives: a path, None, or an OSError out of
\* os.listdir (log_finder.py lines 12-26, 63-86).
LocatorResults == Paths \cup {NULL, "raise"}

\* The whole lines the game client writes in SpecScan.
ScanLines == {<<"RN", "SP", "A", "NL">>}
ScanResponses == {FullResponse(1, ok) : ok \in BOOLEAN}
ScanOutcomes == {[log |-> "ok", info |-> "documented"]}

LineCount(f) == Cardinality({i \in 1..Len(f) : f[i] = "NL"})

\* The offsets in [from, to) of file f at which a room line begins, ascending.
RECURSIVE RoomOffsets(_, _, _)
RoomOffsets(f, from, to) ==
    IF from >= to THEN <<>>
    ELSE (IF f[from + 1] = "RN" THEN <<from>> ELSE <<>>) \o RoomOffsets(f, from + 1, to)

\* What a tick did: how it went (out), whether the lookup without a path
\* gave one (located), whether the parser reported a disconnect
\* (disconnected), whether reset() was called (reset).  NoTick: the step was
\* not a tick.
NoTick == [out |-> "none", located |-> FALSE, disconnected |-> FALSE, reset |-> FALSE]

RECURSIVE TotalLines(_)
TotalLines(ps) ==
    IF ps = {} THEN 0
    ELSE LET p == CHOOSE q \in ps : TRUE
         IN LineCount(files[p]) + TotalLines(ps \ {p})

\* The game client appends a whole line to a log file.
ScanAppend ==
    /\ TotalLines(Paths) < MaxScanLines
    /\ \E p \in Paths, l \in ScanLines :
        files' = [files EXCEPT ![p] = @ \o l]
    /\ tick' = NoTick
    /\ UNCHANGED <<alive, s_pc, current_path, no_new_lines_accumulator, start_button,
                   stop_button, ui_room_info, ui_server_info, handed, twice>>
    /\ UNCHANGED <<sessVars, apiVars, raceVars, tailVars, parseVars, repVars, relayVars, vcVars, findVars, cmdVars>>

\* The game client writes whole lines, each one of lines and at most max of
\* them, to the one log file p1, the other staying empty.
ClientWrites(lines, max) ==
    /\ LineCount(files["p1"]) < max
    /\ \E l \in lines : files' = [files EXCEPT !["p1"] = @ \o l]
    /\ tick' = NoTick
    /\ UNCHANGED <<alive, s_pc, current_path, no_new_lines_accumulator, start_button,
                   stop_button, ui_room_info, ui_server_info, handed, twice>>
    /\ UNCHANGED <<sessVars, apiVars, raceVars, tailVars, parseVars, repVars, relayVars, vcVars, findVars, cmdVars>>

LoopAppend == ClientWrites(ScanLines, MaxScanLines)

StopAppend == ClientWrites(ScanLines, MaxStopLines)

\* The lines of SpecDisc: a room line and the disconnect marker.
DiscLines == {<<"RN", "SP", "A", "NL">>, <<"DC", "NL">>}

DiscAppend == ClientWrites(DiscLines, MaxScanLines)

ThreadAlive_OnceStarted(pc) == pc # "none"

ThreadAlive_Never(pc) == FALSE

\* self.thread is not None and self.thread.is_alive() (line 50): the thread
\* has been started and has neither returned nor ended in the wrapper.
ThreadAlive(pc) == pc \in {"init", "sleep"}

\* The scanner threads left when the thread that took a step stands at pc:
\* one fewer once it has returned or ended in the wrapper.
ThreadsAfter(n, pc) == IF pc \in {"done", "crashed"} THEN n - 1 ELSE n

\* Scanner.start (lines 48-57): nothing happens while the thread is alive.
ScanStart ==
    /\ ~ThreadAlive(s_pc)
    /\ alive' = TRUE
    /\ s_pc' = "init"
    /\ start_button' = FALSE
    /\ stop_button' = TRUE
    /\ tick' = NoTick
    /\ command' = "start"
    /\ scan_threads' = scan_threads + 1
    /\ UNCHANGED <<current_path, no_new_lines_accumulator, ui_room_info,
                   ui_server_info, handed, twice>>
    /\ UNCHANGED <<sessVars, apiVars, raceVars, fsVars, tailVars, parseVars, repVars, relayVars, vcVars, findVars>>

\* Scanner.start (lines 48-57) while the thread is alive: the test of line 50
\* fails and nothing is done.  The user can call it when the start button
\* is enabled.
ScanStartIgnored ==
    /\ ThreadAlive(s_pc)
    /\ start_button
    /\ command' = "start"
    /\ tick' = NoTick
    /\ UNCHANGED <<alive, s_pc, current_path, no_new_lines_accumulator, start_button,
                   stop_button, ui_room_info, ui_server_info, handed, twice,
                   scan_threads>>
    /\ UNCHANGED <<sessVars, apiVars, raceVars, fsVars, tailVars, parseVars, repVars, relayVars, vcVars, findVars>>

\* Scanner.stop (lines 91-98)
ScanStop ==
    /\ alive' = FALSE
    /\ start_button' = TRUE
    /\ stop_button' = FALSE
    /\ tick' = NoTick
    /\ command' = "stop"
    /\ UNCHANGED <<s_pc, current_path, no_new_lines_accumulator, ui_room_info,
                   ui_server_info, handed, twice, scan_threads>>
    /\ UNCHANGED <<sessVars, apiVars, raceVars, fsVars, tailVars, parseVars, repVars, relayVars, vcVars, findVars>>

LoopTest_Forever(a) == "sleep"

\* while self.alive (line 182): into the sleep that begins the next tick, or
\* out of the loop and the thread.
LoopTest(a) == IF a THEN "sleep" ELSE "done"

\* The head of scanner_loop (lines 172-182): a new Stalker, at offset 0, the
\* accumulator at 0, and the first test of while self.alive.
ScanInit ==
    /\ s_pc = "init"
    /\ file_position' = 0
    /\ no_new_lines_accumulator' = 0
    /\ s_pc' = LoopTest(alive)
    /\ tick' = NoTick
    /\ UNCHANGED <<alive, current_path, start_button, stop_button, ui_room_info,
                   ui_server_info, handed, twice>>
    /\ scan_threads' = ThreadsAfter(scan_threads, s_pc')
    /\ UNCHANGED <<tail_prev, tail_ret, tail_all, command>>
    /\ UNCHANGED <<sessVars, apiVars, raceVars, fsVars, parseVars, repVars, relayVars, vcVars, findVars>>

\* The scanner's state as a tick begins, with an empty account of the tick.
TickBegin ==
    [path |-> current_path, pos |-> file_position, acc |-> no_new_lines_accumulator,
     has |-> has_session, hist |-> latest_rooms, id |-> session_id,
     pw |-> session_password, sw |-> disconect_switch, ui |-> ui_room_info,
     srv |-> ui_server_info,
     crashed |-> FALSE, out |-> "none", from |-> 0, to |-> 0, rooms |-> <<>>,
     nhand |-> 0, located |-> FALSE, disconnected |-> FALSE, reset |-> FALSE]

\* await self.reset() inside a tick (lines 146-155) on the tick's state t.
TickReset(t, resp) ==
    LET rs == reset(t.has, t.id, t.pw, resp) IN
    [t EXCEPT !.hist = rs.hist, !.has = rs.has, !.id = rs.id, !.pw = rs.pw,
              !.ui = IF rs.done THEN rs.room_info ELSE @,
              !.srv = IF rs.done THEN rs.server_info ELSE @,
              !.crashed = ~rs.done, !.reset = TRUE]

\* The tick ends with state t: on to the test of while self.alive (line 182)
\* and into the next sleep or out of the thread; or, on an exception that
\* leaves scanner_loop, through _run_async_loop_wrapper (lines 59-74), which
\* resets the buttons and ends the thread.
TickEnd(t) ==
    LET offs == RoomOffsets(files[t.path], t.from, t.to)
        now == IF t.out = "read" THEN {<<t.path, offs[i]>> : i \in 1..t.nhand} ELSE {}
    IN
    /\ current_path' = t.path
    /\ file_position' = t.pos
    /\ no_new_lines_accumulator' = t.acc
    /\ has_session' = t.has
    /\ latest_rooms' = t.hist
    /\ session_id' = t.id
    /\ session_password' = t.pw
    /\ disconect_switch' = t.sw
    /\ ui_room_info' = t.ui
    /\ ui_server_info' = t.srv
    /\ tick' = [out |-> t.out, located |-> t.located,
                disconnected |-> t.disconnected, reset |-> t.reset]
    /\ s_pc' = IF t.crashed THEN "crashed" ELSE LoopTest(alive)
    /\ start_button' = IF t.crashed THEN TRUE ELSE start_button
    /\ stop_button' = IF t.crashed THEN FALSE ELSE stop_button
    /\ handed' = handed \cup now
    /\ twice' = twice \cup (now \cap handed)
    /\ scan_threads' = ThreadsAfter(scan_threads, s_pc')
    /\ UNCHANGED <<alive, rep, parse_ret, parse_hist, parse_call, tail_prev,
                   tail_ret, tail_all, command>>
    /\ UNCHANGED <<apiVars, raceVars, fsVars, relayVars, vcVars, findVars>>

\* No new lines (lines 217-235): t is the tick's state after the read.
TickIdle(t, resps) ==
    LET acc1 == t.acc + 1 IN
    IF acc1 < RELOCATE_AFTER
    THEN TickEnd([t EXCEPT !.acc = acc1, !.out = "idle"])
    ELSE \E latest_file \in LocatorResults :
        IF latest_file = "raise"
        THEN TickEnd([t EXCEPT !.acc = acc1, !.out = "relocfail", !.crashed = TRUE])
        ELSE IF latest_file # t.path
        THEN \E resp \in resps :
            LET r == TickReset([t EXCEPT !.path = latest_file, !.pos = 0], resp)
            IN TickEnd([r EXCEPT !.acc = IF r.crashed THEN acc1 ELSE 0,
                                 !.out = "switch"])
        ELSE TickEnd([t EXCEPT !.acc = 0, !.out = "same"])

\* New lines (lines 237-262): parse them, report the rooms, show the last
\* room, reset on a disconnect.
TickLines(t, lines, resps) ==
    LET p == parse_log_lines(lines, t.sw, NoGeo(lines)) IN
    \E resp \in Asked(NeedsSession(t.has, p.rooms), resps) :
    \E outs \in [1..Len(p.rooms) -> ScanOutcomes] :
        LET r == report_new_rooms(p.rooms, t.has, t.hist, t.id, t.pw, resp, outs)
            t1 == [t EXCEPT !.sw = p.switch, !.has = r.has, !.hist = r.hist,
                            !.id = r.id, !.pw = r.pw, !.out = "read",
                            !.rooms = p.rooms, !.nhand = Len(r.steps),
                            !.disconnected = p.disconnected,
                            !.ui = IF r.ret # NoInfo THEN r.ret ELSE @,
                            !.crashed = r.raised]
        IN IF r.raised \/ ~p.disconnected
           THEN TickEnd(t1)
           ELSE \E eresp \in resps : TickEnd(TickReset(t1, eresp))

OnReadError_KeepPath(t) == [t EXCEPT !.out = "ioerror"]

\* except (IOError, OSError) (lines 210-215): the path is cleared, the tick
\* is over.
OnReadError(t) == [t EXCEPT !.path = NULL, !.out = "ioerror"]

\* The file is opened and read (lines 207-215) with the path and offset of t.
TickOpen(t, resps) ==
    \E io_ok \in BOOLEAN :
        IF ~io_ok
        THEN TickEnd(OnReadError(t))
        ELSE LET r == observe_logfile_changes(files[t.path], t.pos)
                 t1 == [t EXCEPT !.pos = r.pos, !.from = t.pos, !.to = r.pos]
             IN IF r.lines = <<>> THEN TickIdle(t1, resps)
                ELSE TickLines(t1, r.lines, resps)

\* One pass of the loop body after the sleep (lines 183-262), the backend
\* answering from resps.  Without a path the locator is asked first (lines
\* 194-204): an OSError skips the tick, and None goes on to open(None), whose
\* TypeError leaves the loop.
Tick(resps) ==
    /\ s_pc = "sleep"
    /\ IF current_path # NULL
       THEN TickOpen(TickBegin, resps)
       ELSE \E found \in LocatorResults :
            CASE found = "raise" -> TickEnd([TickBegin EXCEPT !.out = "skip"])
              [] found = NULL ->
                    TickEnd([TickBegin EXCEPT !.pos = 0, !.out = "nopath",
                                              !.crashed = TRUE])
              [] OTHER -> TickOpen([TickBegin EXCEPT !.path = found, !.pos = 0,
                                                     !.located = TRUE], resps)

\* A tick against a backend that answers every call with a JSON object.
ScanTick == Tick(ScanResponses)

\* SpecDisc: the backend grants the session, or answers with JSON that is
\* not an object.
DiscResponses ==
    {FullResponse(1, TRUE),
     [kind |-> "nonobject", keys |-> {}, sid |-> NoCred, success |-> FALSE]}

(***************************************************************************)
(* src/app/scanner/scanner.py: Scanner.version_check_loop                  *)
(***************************************************************************)
\* The set_*_signal methods of the Scanner (lines 288-318), by the attribute
\* each one sets.
SignalNames ==
    {"update_server_info", "update_room_info", "update_start_button",
     "update_stop_button", "log_console_message", "version_check_ready",
     "debug_console_message"}

\* required_signals (lines 159-166)
required_signals ==
    {"update_server_info", "update_room_info", "update_start_button",
     "update_stop_button", "version_check_ready", "debug_console_message"}

validate_signals_setup_Any(sigs) == sigs # {}

\* Scanner._validate_signals_setup (lines 157-170)
validate_signals_setup(sigs) == \A name \in required_signals : name \in sigs

\* What the lookup of the latest published version gives: a version, the
\* empty sentinel, or an exception.
VersionResults == {"1.0", "2.0", "", "raise"}

\* The window calls one more set_*_signal method of the Scanner.
SetSignal ==
    /\ \E name \in SignalNames \ signals : signals' = signals \cup {name}
    /\ UNCHANGED <<vc_pc, version_emitted>>
    /\ UNCHANGED <<sessVars, apiVars, raceVars, fsVars, tailVars, parseVars, repVars, relayVars, scanVars, findVars, cmdVars>>

\* while not self._validate_signals_setup(): sleep(0.1) (lines 322-323):
\* the loop is left once the check passes.
VcPoll ==
    /\ vc_pc = "poll"
    /\ validate_signals_setup(signals)
    /\ vc_pc' = "lookup"
    /\ UNCHANGED <<signals, version_emitted>>
    /\ UNCHANGED <<sessVars, apiVars, raceVars, fsVars, tailVars, parseVars, repVars, relayVars, scanVars, findVars, cmdVars>>

\* The lookup and the emission (lines 325-333): the result is emitted, or
\* the empty string when the lookup raised.
VcLookup ==
    /\ vc_pc = "lookup"
    /\ \E r \in VersionResults :
        version_emitted' =
            IF "version_check_ready" \in signals
            THEN Append(version_emitted, IF r = "raise" THEN "" ELSE r)
            ELSE version_emitted
    /\ vc_pc' = "done"
    /\ UNCHANGED signals
    /\ UNCHANGED <<sessVars, apiVars, raceVars, fsVars, tailVars, parseVars, repVars, relayVars, scanVars, findVars, cmdVars>>

DiscTick == Tick(DiscResponses)

(***************************************************************************)
(* src/app/scanner/log_finder.py: get_latest_log_file_path                 *)
(***************************************************************************)
\* A path is a pair <<directory, name>>; the user's path itself is
\* <<"user", "">>.  None is the empty tuple, an exception out of the
\* function is <<"raise">>, and NoFind says that no call has returned since
\* the file system last changed.
NotFound == <<>>
Raised == <<"raise">>
NoFind == <<"none">>

\* The names a directory may hold, and what it holds under a name: nothing,
\* a subdirectory, or a regular file, last modified at the earlier ("old")
\* or the later ("new") of two times.
FileNames == {"a", "b"}
Mtimes == {"old", "new"}
Entries == {"absent", "subdir"} \cup Mtimes
EmptyDir == [n \in FileNames |-> "absent"]

\* What the file system holds at a path: nothing, a regular file, or a
\* directory with its entries.
Missing == [kind |-> "missing", entries |-> EmptyDir]
RegularFile == [kind |-> "file", entries |-> EmptyDir]
Directory(entries) == [kind |-> "dir", entries |-> entries]
FsObjects == {Missing, RegularFile} \cup {Directory(e) : e \in [FileNames -> Entries]}

\* The regular files of a directory (os.listdir filtered by os.path.isfile)
\* and those of them no other is newer than; max() returns the first of
\* these in the order os.listdir happens to give.
FilesOf(d) == {n \in FileNames : d.entries[n] \in Mtimes}
LatestFiles(d) ==
    {n \in FilesOf(d) :
        \A o \in FilesOf(d) : d.entries[o] = "new" => d.entries[n] = "new"}

\* _get_latest_file_from_directory (lines 12-26): the outcomes for the
\* directory named dir holding d.  os.listdir raises an OSError when the
\* directory does not exist, which is not caught; max() of no file raises
\* the ValueError that is.
get_latest_file_from_directory(dir, d) ==
    IF d.kind # "dir" THEN {Raised}
    ELSE IF FilesOf(d) = {} THEN {NotFound}
    ELSE {<<dir, n>> : n \in LatestFiles(d)}

\* _look_for_linux_logdir_path (lines 28-61): glob gives the candidate
\* directories that exist; the newest file of them, None without one.
look_for_linux_logdir_path(dir, d) ==
    IF d.kind # "dir" \/ FilesOf(d) = {} THEN {NotFound}
    ELSE {<<dir, n>> : n \in LatestFiles(d)}

\* get_latest_log_file_path (lines 63-86): the outcomes of one call.
get_latest_log_file_path(path, platform, user, default) ==
    IF path # ""
    THEN IF user.kind = "file" THEN {<<"user", "">>}
         ELSE IF user.kind = "dir"
         THEN get_latest_file_from_directory("user", user)
         ELSE {NotFound}
    ELSE IF platform = "linux"
    THEN look_for_linux_logdir_path("default", default)
    ELSE get_latest_file_from_directory("default", default)

\* The module is imported (lines 8-10): the platform and the user's setting
\* are read once.
FinderImport ==
    /\ PLATFORM = NULL
    /\ \E pl \in {"windows", "darwin", "linux"}, path \in {"", "user"} :
        /\ PLATFORM' = pl
        /\ USER_LOG_PATH' = path
    /\ UNCHANGED <<fs_user, fs_default, find_ret>>
    /\ UNCHANGED <<sessVars, apiVars, raceVars, fsVars, tailVars, parseVars, repVars, relayVars, scanVars, vcVars, cmdVars>>

\* Something outside the program changes what is at the user's path.
FsChangeUser ==
    /\ PLATFORM # NULL
    /\ \E o \in FsObjects : o # fs_user /\ fs_user' = o
    /\ find_ret' = NoFind
    /\ UNCHANGED <<PLATFORM, USER_LOG_PATH, fs_default>>
    /\ UNCHANGED <<sessVars, apiVars, raceVars, fsVars, tailVars, parseVars, repVars, relayVars, scanVars, vcVars, cmdVars>>

\* Something outside the program changes the default log directory.
FsChangeDefault ==
    /\ PLATFORM # NULL
    /\ \E o \in FsObjects \ {RegularFile} : o # fs_default /\ fs_default' = o
    /\ find_ret' = NoFind
    /\ UNCHANGED <<PLATFORM, USER_LOG_PATH, fs_user>>
    /\ UNCHANGED <<sessVars, apiVars, raceVars, fsVars, tailVars, parseVars, repVars, relayVars, scanVars, vcVars, cmdVars>>

\* One get_latest_log_file_path() call.
FinderCall ==
    /\ PLATFORM # NULL
    /\ find_ret' \in get_latest_log_file_path(USER_LOG_PATH, PLATFORM, fs_user, fs_default)
    /\ UNCHANGED <<PLATFORM, USER_LOG_PATH, fs_user, fs_default>>
    /\ UNCHANGED <<sessVars, apiVars, raceVars, fsVars, tailVars, parseVars, repVars, relayVars, scanVars, vcVars, cmdVars>>

Init ==
    /\ session_id = NoCred
    /\ session_password = NoCred
    /\ api_last = NoCall
    /\ w_pc = "idle" /\ w_arg = NoCred
    /\ g_pc = "idle" /\ g_id = NoCred /\ g_result = <<NoCred, NoCred>>
    /\ files = [p \in Paths |-> <<>>]
    /\ file_position = 0
    /\ tail_prev = 0 /\ tail_ret = <<>> /\ tail_all = <<>>
    /\ disconect_switch = TRUE
    /\ parse_ret = [rooms |-> <<>>, disconnected |-> FALSE]
    /\ parse_hist = <<>>
    /\ parse_call = NoParse
    /\ has_session = FALSE
    /\ latest_rooms = <<>>
    /\ rep = NoReport
    /\ ws_pc = "idle" /\ ws_attempts = 0 /\ ws_delays = <<>>
    /\ active_websocket = NoSocket /\ ws_sent = <<>> /\ ws_conn = 0
    /\ ws_open = FALSE /\ ws_event = NoEvent
    /\ players = NoUsers /\ encountered_rooms = <<>> /\ image_map = {}
    /\ is_syncing = FALSE
    /\ alive = FALSE /\ s_pc = "none" /\ current_path = NULL
    /\ no_new_lines_accumulator = 0
    /\ start_button = TRUE /\ stop_button = FALSE /\ ui_room_info = NoInfo
    /\ ui_server_info = "none" /\ tick = NoTick
    /\ handed = {} /\ twice = {}
    /\ signals = {} /\ vc_pc = "poll" /\ version_emitted = <<>>
    /\ PLATFORM = NULL /\ USER_LOG_PATH = NULL
    /\ fs_user = Missing /\ fs_default = Missing /\ find_ret = NoFind
    /\ command = "none" /\ scan_threads = 0

ApiNext == ApiRequestSession \/ ApiEndSession \/ ApiClearSession

\* The session calls alone, against every backend answer.
SpecApi == Init /\ [][ApiNext]_vars

RaceNext == W_Begin \/ W_StoreId \/ W_StorePw \/ G_Begin \/ G_LoadId \/ G_LoadPw

\* One writer and one reader of session_config, interleaved.
SpecRace == Init /\ [][RaceNext]_vars

TailNext == TailAppend \/ TailObserve

\* One Stalker tailing one file that only grows.
SpecTail == Init /\ [][TailNext]_vars

\* The tailer on a file that grows by whole lines, beyond the read cap.
SpecCap == Init /\ [][CapAppend \/ TailObserve]_vars

\* The parser alone, called on arbitrary batches.
SpecParse == Init /\ [][ParseCall]_vars

\* The reporting engine on one room at a time, over many room names.
SpecDedup == Init /\ [][DedupReport \/ DedupReset]_vars

\* The reporting engine on batches of rooms, against every backend answer.
SpecReport == Init /\ [][ReportBatch \/ ReportReset]_vars

\* The sync button while syncing (windowed.py on_sync_button_clicked, lines
\* 551-561, and _stop_websocket_sync, lines 320-328): the event loop of the
\* relay thread is stopped, so a websocket_loop that has not returned stays
\* suspended where it is and its finally block (websocket.py lines 200-208)
\* does not run; the thread is dropped, SyncWindow.clear_all (sync_window.py
\* lines 668-672) empties the player map and the room list and leaves
\* image_map as it is, and is_syncing is cleared.
WsStop ==
    /\ is_syncing
    /\ is_syncing' = FALSE
    /\ ws_pc' = "idle"
    /\ players' = NoUsers
    /\ encountered_rooms' = <<>>
    /\ ws_event' = NoEvent
    /\ UNCHANGED <<ws_attempts, ws_delays, active_websocket, ws_sent, ws_conn,
                   ws_open, image_map>>
    /\ UNCHANGED <<sessVars, apiVars, raceVars, fsVars, tailVars, parseVars, repVars, scanVars, vcVars, findVars, cmdVars>>

RelayNext ==
    \/ WsStart \/ WsConnectOk \/ WsConnectFail \/ WsBackoffDone
    \/ WsDrop \/ WsJoin \/ WsPing \/ WsRecv \/ WsClose \/ WsStop

\* The relay client against a relay that accepts or refuses each handshake.
SpecRelay == Init /\ [][RelayNext]_vars

\* The parser on batches with room, address and disconnect lines.
SpecLocate == Init /\ [][LocateCall]_vars

VersionNext ==
    \/ SetSignal \/ VcPoll \/ VcLookup

\* The version check thread started by Scanner.__init__ while the window
\* wires the signals of the Scanner.
SpecVersion == Init /\ [][VersionNext]_vars

FinderNext == FinderImport \/ FsChangeUser \/ FsChangeDefault \/ FinderCall

\* The log locator against every small file system.
SpecFinder == Init /\ [][FinderNext]_vars

RingNext ==
    \/ WsStart \/ WsConnectOk \/ WsJoin \/ RingRecv

\* The receive loop of one relay connection under encounters of more rooms
\* than the ring holds.
SpecRing == Init /\ [][RingNext]_vars

ScanNext ==
    \/ ScanAppend \/ ScanStart \/ ScanStop \/ ScanInit \/ ScanTick

\* The scan loop, the user's start and stop, and the game client's writes.
SpecScan == Init /\ [][ScanNext]_vars

LoopNext ==
    \/ LoopAppend \/ ScanStart \/ ScanStop \/ ScanInit \/ ScanTick

\* The scan loop on one log file that receives room lines.
SpecLoop == Init /\ [][LoopNext]_vars

DiscNext ==
    \/ DiscAppend \/ ScanStart \/ ScanStop \/ ScanInit \/ DiscTick

\* The scan loop on one log file that receives room lines and disconnects.
SpecDisc == Init /\ [][DiscNext]_vars

StopNext ==
    \/ StopAppend \/ ScanStart \/ ScanStop \/ ScanInit \/ ScanTick

\* The scan loop under start and stop, with the thread scheduled: its head
\* and its ticks are taken in the end (the sleep of a tick is 0.5 s, the
\* backend calls have a timeout).
SpecStop ==
    Init /\ [][StopNext]_vars /\ WF_vars(ScanInit) /\ WF_vars(ScanTick)

RestartNext ==
    \/ StopAppend \/ ScanStart \/ ScanStartIgnored \/ ScanStop \/ ScanInit
    \/ ScanTick

\* The scan loop under every sequence of start and stop commands, those
\* given while the thread is alive included, with the thread scheduled.
SpecRestart ==
    Init /\ [][RestartNext]_vars /\ WF_vars(ScanInit) /\ WF_vars(ScanTick)

(***************************************************************************)
(* Claims                                                                  *)
(***************************************************************************)

\* The lines of content f that are complete (newline-terminated) before
\* offset upto, stripped, the empty ones dropped.
RECURSIVE CompletedLines(_, _, _)
CompletedLines(f, from, upto) ==
    LET e == LineEnd(f, from) IN
    IF from >= upto \/ e > upto \/ e = from \/ f[e] # "NL" THEN <<>>
    ELSE FilterLines(<<SubSeq(f, from + 1, e)>>) \o CompletedLines(f, e, upto)

\* The room lines of the current file that lie before the Stalker's offset:
\* each was in the lines some tick tailed.
Tailed ==
    IF current_path = NULL THEN {}
    ELSE LET offs == RoomOffsets(files[current_path], 0, file_position)
         IN {<<current_path, offs[i]>> : i \in 1..Len(offs)}

\* C1: across scan ticks, with failing session requests, re-location and
\* stop followed by start, no room event is lost or duplicated: the room of
\* every room line that was tailed has been handed to the backend, and no
\* log line's room is handed to the backend by more than one tick.
C1_NoLossNoDup == Tailed \subseteq handed /\ twice = {}

\* C2: over observe_logfile_changes calls on one growing file, the offset
\* never decreases and the lists returned, concatenated in call order, are
\* exactly the completed non-empty stripped lines of the file up to the
\* offset (so no line is returned twice, or as two fragments).
C2_TailExact ==
    /\ file_position >= tail_prev
    /\ tail_all = CompletedLines(files["p1"], 0, file_position)

\* Disconnect-marker lines given to the parser before its i-th call.
RECURSIVE MarkersBefore(_)
MarkersBefore(i) ==
    IF i <= 1 THEN 0 ELSE MarkersBefore(i - 1) + parse_hist[i - 1].m

TotalMarkers == MarkersBefore(Len(parse_hist) + 1)

\* Calls so far that returned disconnected = true.
Signals == Cardinality({i \in 1..Len(parse_hist) : parse_hist[i].d})

\* C4 (as claimed): two marker lines yield exactly one disconnected = true
\* result, three consecutive marker lines yield exactly two, in one call or
\* spread over calls; a call holding only the second marker of a pair
\* returns disconnected = false.
C4_ToggleSignals ==
    /\ TotalMarkers = 2 => Signals = 1
    /\ TotalMarkers = 3 => Signals = 2
    /\ \A i \in 1..Len(parse_hist) :
        (parse_hist[i].m = 1 /\ MarkersBefore(i) % 2 = 1) => ~parse_hist[i].d

\* C4 (amended): the toggle persists across calls, and a call returns one
\* boolean: disconnected = true exactly when the call holds a marker line
\* that is the 1st, 3rd, 5th ... since the process started.  So two marker
\* lines yield one true result (in one call or two), a call holding only the
\* second marker of a pair returns false, and three marker lines yield two
\* true results when spread over calls but a single one when in one call.
C4_TogglePerCall ==
    /\ \A i \in 1..Len(parse_hist) :
        parse_hist[i].d <=>
            \E k \in 1..parse_hist[i].m : (MarkersBefore(i) + k) % 2 = 1
    /\ TotalMarkers = 2 => Signals = 1
    /\ TotalMarkers = 3 =>
        Signals = IF \E i \in 1..Len(parse_hist) : parse_hist[i].m = 3 THEN 1 ELSE 2
    /\ disconect_switch <=> TotalMarkers % 2 = 0

\* Three marker lines, one per call: true, false, true.
C4_Witness ==
    /\ Len(parse_hist) = 3
    /\ \A i \in 1..3 : parse_hist[i].m = 1
    /\ Signals = 2
    /\ ~parse_hist[2].d

\* The last five entries of a list.
LastFive(h) == IF Len(h) > 5 THEN SubSeq(h, Len(h) - 4, Len(h)) ELSE h

\* latest_rooms after the i-th step of the last report_new_rooms call.
HistAfter(i) ==
    IF i < Len(rep.steps) THEN rep.steps[i + 1].hist ELSE latest_rooms

\* C3: the recent-room history never holds more than 5 names; a room gets a
\* logging-mode encounter call exactly when it is not in the history at that
\* moment, and is then appended, the oldest entry evicted beyond 5; a room
\* that is in the history gets no logging call, only the RoomInfo fetch, and
\* leaves the history as it is.
C3_Dedup ==
    /\ Len(latest_rooms) <= 5
    /\ \A i \in 1..Len(rep.steps) :
        LET st == rep.steps[i] IN
        /\ st.logging <=> ~(\E j \in 1..Len(st.hist) : st.hist[j] = st.room)
        /\ st.logging =>
            /\ st.calls = <<"log", "info">>
            /\ HistAfter(i) = LastFive(st.hist \o <<st.room>>)
        /\ ~st.logging =>
            /\ st.calls = <<"info">>
            /\ HistAfter(i) = st.hist

\* A room not among the five in the history is logged as new and evicts the
\* oldest of them.
C3_Witness ==
    /\ Len(rep.steps) = 1
    /\ Len(rep.steps[1].hist) = 5
    /\ rep.steps[1].logging
    /\ latest_rooms = Tail(rep.steps[1].hist) \o <<rep.steps[1].room>>

Count(calls, c) == Cardinality({i \in 1..Len(calls) : calls[i] = c})

\* C5: when, for a room processed in logging mode, the RoomInfo fetch
\* succeeds but the logging call fails, a fresh session is requested exactly
\* once and the logging call is retried at most once (two logging calls in
\* all when the fresh session is granted, one when it is not).
C5_CompensatingRetry ==
    \A i \in 1..Len(rep.steps) :
        LET st == rep.steps[i] IN
        (st.logging /\ ~st.raised /\ st.info.kind # "none" /\ ~st.logged) =>
            /\ Count(st.calls, "request_session") = 1
            /\ Count(st.calls, "log") \in {1, 2}

\* C10: report_new_rooms with a non-empty batch and no session first calls
\* request_session; if that returns false it returns None, issues no backend
\* call for any room and leaves latest_rooms and has_session as they were; if
\* it returns true has_session is true before any room is processed.  With
\* an empty batch, or with a session, no session is requested.
C10_SessionFirst ==
    rep.op = "report_new_rooms" =>
        /\ rep.req.made <=> (rep.rooms # <<>> /\ ~rep.pre_has)
        /\ (rep.req.made /\ ~rep.req.ok /\ ~rep.raised) =>
            /\ rep.ret = NoInfo
            /\ rep.steps = <<>>
            /\ latest_rooms = rep.pre_hist
            /\ has_session = rep.pre_has
        /\ (rep.req.made /\ rep.req.ok) =>
            /\ has_session
            /\ Len(rep.steps) >= 1
            /\ \A i \in 1..Len(rep.steps) : rep.steps[i].has
        /\ ~rep.req.made => has_session = rep.pre_has

\* A non-empty batch without a session, and the session request fails.
C10_Witness ==
    /\ rep.op = "report_new_rooms"
    /\ Len(rep.rooms) = 2
    /\ ~rep.pre_has
    /\ rep.req.made /\ ~rep.req.ok /\ ~rep.raised
    /\ rep.ret = NoInfo

\* C6: when every handshake attempt fails, exactly 3 attempts are made with
\* sleeps of 1, 2 and 4 seconds after the 1st, 2nd and 3rd failure, and then
\* websocket_loop returns having sent no join or ping and without setting
\* the active websocket; an attempt that succeeds stops the retries at once.
C6_ConnectBackoff ==
    /\ ws_attempts <= 3
    /\ \A i \in 1..Len(ws_delays) : ws_delays[i] = <<1, 2, 4>>[i]
    /\ ws_pc = "connect" => Len(ws_delays) = ws_attempts /\ ws_attempts < 3
    /\ ws_pc = "backoff" => Len(ws_delays) = ws_attempts
    /\ ws_pc \in {"connect", "backoff", "gaveup"} =>
        ws_sent = <<>> /\ active_websocket # ws_conn
    /\ ws_pc = "gaveup" => ws_attempts = 3 /\ ws_delays = <<1, 2, 4>>
    /\ ws_pc \in {"connected", "joined", "closed"} =>
        Len(ws_delays) = ws_attempts - 1

\* Three handshakes failed and the client gave up.
C6_Witness == ws_pc = "gaveup" /\ ws_attempts = 3 /\ Len(ws_delays) = 3

\* C11: the locator is re-run only after 50 consecutive ticks without new
\* lines: a tick that reads new lines restarts the count, and the re-check
\* happens only in a tick that brings the count to 50.  A different path is
\* taken over with the offset at 0 and reset() run; the same path leaves
\* path, offset, history and session as they were.
C11_RelocateAfterIdle ==
    [][tick' # NoTick =>
        /\ tick'.out = "read" => no_new_lines_accumulator' = 0
        /\ tick'.out \in {"same", "switch", "relocfail"} =>
                no_new_lines_accumulator + 1 >= RELOCATE_AFTER
        /\ tick'.out = "switch" =>
                /\ current_path' # current_path \/ tick'.located
                /\ file_position' = 0
                /\ tick'.reset
        /\ tick'.out = "same" =>
                /\ current_path' = current_path \/ tick'.located
                /\ file_position' = file_position \/ tick'.located
                /\ latest_rooms' = latest_rooms
                /\ has_session' = has_session
                /\ <<session_id, session_password>>' = <<session_id, session_password>>
    ]_vars

\* C12: a tick in which the parser reports disconnected = true runs reset()
\* in that same tick and leaves current_path as it is; a tick in which the
\* parser reports disconnected = false does not run reset().
C12_ResetOnDisconnect ==
    [][tick' # NoTick /\ tick'.out = "read" =>
        /\ tick'.disconnected =>
                /\ tick'.reset
                /\ current_path' = current_path \/ tick'.located
        /\ ~tick'.disconnected => ~tick'.reset
    ]_vars

\* C13: after reset() has completed, whether end_session succeeded, failed
\* or there was no session, the room history is empty, the stored
\* credentials are (None, None), has_session is false, the room display was
\* sent an empty RoomInfo and the server display an empty dict; and
\* end_session posted the credentials held before the reset.
C13_ResetClears ==
    rep.op = "reset" /\ ~rep.raised =>
        /\ latest_rooms = <<>>
        /\ session_id = NoCred /\ session_password = NoCred
        /\ ~has_session
        /\ ui_room_info = EmptyInfo /\ ui_server_info = "empty"
        /\ rep.posted = <<rep.pre_id, rep.pre_pw>>

\* A reset with a session and rooms in the history has completed.
C13_Witness ==
    /\ rep.op = "reset" /\ ~rep.raised
    /\ rep.pre_has /\ rep.pre_id # NoCred /\ rep.pre_hist # <<>>

\* C14: the tail offset never decreases while current_path stays the same,
\* and it is set to 0 exactly when the path changes (rotation, re-location)
\* or a disconnect-triggered reset runs: the offset goes down only in such a
\* step, a tick that switches the path ends at offset 0, and so does a tick
\* that runs the reset after a disconnect.
C14_OffsetResets ==
    [][/\ file_position' < file_position =>
            \/ current_path' # current_path
            \/ tick'.disconnected /\ tick'.reset
       /\ tick'.out = "switch" => file_position' = 0
       /\ tick'.disconnected /\ tick'.reset /\ s_pc' # "crashed" =>
            file_position' = 0
    ]_vars

\* A tick in which the locator found no file: it raised or returned None, at
\* the lookup without a path or at the rotation re-check.
LookupFailed(t, path) ==
    \/ t.out \in {"skip", "nopath", "relocfail"}
    \/ t.out = "switch" /\ path = NULL

\* C15: a failed log-file lookup is never fatal: in a tick in which the
\* locator finds no file, at the lookup without a path or at the rotation
\* re-check, the loop stays alive and nothing is reported, and after a failed
\* lookup without a path the path is still none, so that a later tick looks
\* again.
C15_LookupNeverFatal ==
    [][tick' # NoTick /\ LookupFailed(tick', current_path') =>
        /\ s_pc' # "crashed"
        /\ handed' = handed
        /\ tick'.out \in {"skip", "nopath"} => current_path' = NULL
    ]_vars

\* C16: when opening or reading the log file fails with an I/O error, the
\* tick sets current_path to none, parses and reports nothing, and leaves the
\* room history and the session as they were; the loop keeps running, and a
\* tick that begins without a path asks the locator again.
C16_ReadErrorRelocates ==
    [][tick' # NoTick =>
        /\ tick'.out = "ioerror" =>
                /\ current_path' = NULL
                /\ s_pc' = IF alive THEN "sleep" ELSE "done"
                /\ handed' = handed
                /\ latest_rooms' = latest_rooms
                /\ has_session' = has_session
                /\ <<session_id, session_password>>' = <<session_id, session_password>>
                /\ disconect_switch' = disconect_switch
        /\ current_path = NULL =>
                tick'.out \in {"skip", "nopath"} \/ tick'.located
    ]_vars

\* An I/O error has just hit a scanner that holds a session and a history.
C16_Witness ==
    /\ tick.out = "ioerror" /\ ~tick.located
    /\ has_session /\ latest_rooms # <<>> /\ current_path = NULL

\* C17: an exception that leaves scanner_loop is caught by the wrapper of
\* the thread: the start button is enabled again and the stop button
\* disabled, and a following start() launches a new scan loop thread.
C17_CrashWrapper ==
    s_pc = "crashed" =>
        /\ start_button /\ ~stop_button
        /\ ENABLED ScanStart

\* The tick just taken ended in the wrapper.
C17_Witness == s_pc = "crashed" /\ tick.out \in {"nopath", "relocfail"}

\* C18 as stated: the flag is tested at the top of each tick, so that no
\* tick body (read, parse, report) begins after stop() has set alive to
\* false.
C18_NoTickAfterStop == [][tick' # NoTick => alive]_vars

\* C18, amended: the flag is tested before the sleep of each tick, so that
\* after stop() at most one more tick body runs, the one whose sleep was
\* under way; when it is over the thread exits, and once alive is false the
\* thread does exit.
C18_StopsAfterOneTick ==
    /\ [][tick' # NoTick /\ ~alive => s_pc' \in {"done", "crashed"}]_vars
    /\ (~alive ~> ~ThreadAlive(s_pc))

\* A tick body ran after stop(), read a line, and the thread then exited.
C18_Witness == ~alive /\ tick.out = "read" /\ s_pc = "done"

\* C19: whichever way a joined relay connection has ended (websocket_loop
\* returned after a failed receive or a close by the relay, or the sync was
\* stopped from the UI), the active-websocket reference is cleared and
\* is_syncing is false again, as the "connection closed" notification makes
\* it.
C19_ClosureNotified ==
    ws_pc \in {"closed", "idle"} =>
        active_websocket = NoSocket /\ ~is_syncing

\* C20: after a disconnect or a stop from the UI the player map, the list of
\* encountered rooms and the image cache of the sync window are all empty.
C20_StateCleared ==
    ws_pc \in {"closed", "idle"} =>
        players = NoUsers /\ encountered_rooms = <<>> /\ image_map = {}

\* C21: after a successful handshake the first message sent is the join
\* event and every later one is a ping: nothing is sent before websocket_loop
\* has the connection, the join is sent in the step that ends the handshake
\* phase (when the connection is still open), no inbound message is
\* dispatched before that step, and from then on the ping task can send a
\* ping at any time while the receive loop runs.
C21_JoinFirst ==
    /\ [](\A i \in 1..Len(ws_sent) :
             ws_sent[i] = IF i = 1 THEN "join" ELSE "ping")
    /\ [](ws_pc \in {"connect", "backoff", "connected", "gaveup"} =>
             ws_sent = <<>>)
    /\ [][ws_pc = "connected" /\ ws_pc' = "joined" /\ ws_open =>
             ws_sent' = <<"join">>]_vars
    /\ [][ws_event' # NoEvent => ws_pc = "joined"]_vars
    /\ [](ws_pc = "joined" /\ Len(ws_sent) < MaxSent => ENABLED WsPing)

\* The join and two pings were sent and a message was just dispatched.
C21_Witness ==
    /\ ws_sent = <<"join", "ping", "ping">>
    /\ ws_event.event = "joined"

\* The names held by a list of rooms.
Names(rooms) == {rooms[i] : i \in 1..Len(rooms)}

\* C22: after a state event is processed the players are exactly the users
\* of the snapshot, each listed user that has a current room is in that
\* room, and the ring holds the rooms of the snapshot, at most 6 of them.
C22_StateReplaces ==
    [][ws_event'.event = "state" =>
        /\ \A u \in Users :
            /\ players'[u] = "absent" <=> ws_event'.users[u] = "absent"
            /\ ws_event'.users[u] \notin {"absent", ""} =>
                    players'[u] = ws_event'.users[u]
        /\ Names(encountered_rooms') = Names(ws_event'.loaded_rooms)
        /\ Len(encountered_rooms') <= 6]_vars

\* C23: a message whose event tag is none of joined, left, encounter, state
\* changes nothing: websocket_loop stays in its receive loop on the same
\* connection, the player map, the ring, the image cache and the events sent
\* are as before, and afterwards the next message can be received and the
\* ping task can send.
C23_UnknownIgnored ==
    /\ [][ws_event'.event = "other" =>
            /\ ws_pc' = "joined" /\ ws_open'
            /\ UNCHANGED <<players, encountered_rooms, image_map, ws_sent,
                           active_websocket, is_syncing>>]_vars
    /\ [](ws_event.event = "other" =>
            /\ ENABLED WsRecv
            /\ Len(ws_sent) < MaxSent => ENABLED WsPing)

\* A message with an unknown tag was just received while a player is
\* placed and the ring holds two rooms.
C23_Witness ==
    /\ ws_event.event = "other"
    /\ players["u1"] = "A"
    /\ Len(encountered_rooms) = 2

FirstSix(rooms) == SubSeq(rooms, 1, IF Len(rooms) > 6 THEN 6 ELSE Len(rooms))

\* C24: an encounter event puts its reporter in the named room; a room is
\* pushed only by an encounter flagged is_new (or by a snapshot) and only
\* when the ring does not hold it yet, in which case it becomes the first
\* entry and the oldest entry beyond six is dropped; an encounter with
\* is_new false leaves the ring as it is; at all times the ring holds at
\* most 6 names and none twice.
C24_RingBounded ==
    /\ [](Len(encountered_rooms) <= 6)
    /\ [](\A i, j \in 1..Len(encountered_rooms) :
             encountered_rooms[i] = encountered_rooms[j] => i = j)
    /\ [][ws_event'.event = "encounter" =>
            /\ ws_event'.username # NULL =>
                    players'[ws_event'.username] = ws_event'.room_name
            /\ encountered_rooms' =
                    IF ws_event'.is_new
                       /\ ws_event'.room_name \notin Names(encountered_rooms)
                    THEN FirstSix(<<ws_event'.room_name>> \o encountered_rooms)
                    ELSE encountered_rooms]_vars

\* A seventh room was pushed into a full ring: the ring holds six rooms and
\* the first one pushed is no longer among them.
C24_Witness ==
    /\ ws_event.event = "encounter" /\ ws_event.is_new
    /\ Len(encountered_rooms) = 6
    /\ encountered_rooms[1] = ws_event.room_name
    /\ Cardinality(image_map) = 7

\* C25: a joined event adds its user (a user already present keeps its
\* current room), a left event removes its user, and a user that has just
\* left is still absent after an encounter event that names it as reporter.
C25_PresenceFollowsEvents ==
    /\ [][ws_event'.event = "joined" =>
            players' = [players EXCEPT ![ws_event'.username] =
                IF @ = "absent" THEN NULL ELSE @]]_vars
    /\ [][ws_event'.event = "left" =>
            players' = [players EXCEPT ![ws_event'.username] = "absent"]]_vars
    /\ [][/\ ws_event.event = "left"
           /\ ws_event'.event = "encounter"
           /\ ws_event'.username = ws_event.username
           => players'[ws_event.username] = "absent"]_vars

\* C26: the version check leaves its polling loop only when every required
\* signal is wired, makes one lookup and then stops for good, and emits on
\* version_check_ready exactly once whatever the lookup gave; nothing is
\* emitted while a required signal is missing or the lookup is still to
\* come.
C26_VersionOnce ==
    /\ [][vc_pc = "poll" /\ vc_pc' # "poll" =>
            required_signals \subseteq signals /\ vc_pc' = "lookup"]_vars
    /\ [][vc_pc = "lookup" /\ vc_pc' # "lookup" => vc_pc' = "done"]_vars
    /\ [][vc_pc = "done" => vc_pc' = "done"]_vars
    /\ [](Len(version_emitted) = IF vc_pc = "done" THEN 1 ELSE 0)
    /\ [](version_emitted # <<>> => required_signals \subseteq signals)

\* The lookup failed and the empty sentinel was emitted.
C26_Witness == vc_pc = "done" /\ version_emitted = <<"">>

\* C27: a report_new_rooms call that returns gives back the result of the
\* info fetch of the last room of its batch and of no other room: null when
\* that fetch failed, whatever the earlier fetches gave, and null when the
\* batch is empty (or when no room was processed because the session
\* request was refused).
C27_ReturnsLast ==
    rep.op = "report_new_rooms" /\ ~rep.raised =>
        IF rep.rooms = <<>> \/ (rep.req.made /\ ~rep.req.ok)
        THEN rep.ret = NoInfo /\ rep.steps = <<>>
        ELSE /\ Len(rep.steps) = Len(rep.rooms)
             /\ rep.steps[Len(rep.steps)].room = rep.rooms[Len(rep.rooms)]
             /\ rep.ret = rep.steps[Len(rep.steps)].info

\* A batch of two rooms: the first fetch gave a RoomInfo, the last one
\* failed, and the call returned null.
C27_Witness ==
    /\ rep.op = "report_new_rooms" /\ ~rep.raised
    /\ Len(rep.steps) = 2
    /\ rep.steps[1].info # NoInfo
    /\ rep.steps[2].info = NoInfo
    /\ rep.ret = NoInfo

\* C28: within one report_new_rooms call the rooms are processed in the
\* order of the batch, one at a time: for a room that is logged the logging
\* call and the info fetch are issued together (for a room already in the
\* history the info fetch alone), and the calls of a room have all returned
\* before the next room is looked at, so a room whose calls raised is the
\* last one processed.
C28_InOrder ==
    rep.op = "report_new_rooms" =>
        /\ Len(rep.steps) <= Len(rep.rooms)
        /\ \A i \in 1..Len(rep.steps) :
            /\ rep.steps[i].room = rep.rooms[i]
            /\ rep.steps[i].calls =
                    IF rep.steps[i].logging THEN <<"log", "info">> ELSE <<"info">>
            /\ i < Len(rep.steps) => ~rep.steps[i].raised
        /\ ~rep.raised /\ rep.steps # <<>> => Len(rep.steps) = Len(rep.rooms)

\* A batch of two different rooms, both logged and fetched.
C28_Witness ==
    /\ rep.op = "report_new_rooms" /\ ~rep.raised
    /\ Len(rep.steps) = 2
    /\ rep.steps[1].room # rep.steps[2].room
    /\ rep.steps[1].calls = <<"log", "info">>
    /\ rep.steps[2].calls = <<"log", "info">>

\* A line holds the marker m in some spelling.
Marked(line, m) == \E i \in 1..Len(line) : line[i] \in m

\* The lines of the last parse call that hold the room marker, and those
\* that hold the address marker.
RoomLines ==
    {i \in 1..Len(parse_call.lines) : Marked(parse_call.lines[i], {"RN", "rn"})}
AddressLines ==
    {i \in 1..Len(parse_call.lines) : Marked(parse_call.lines[i], {"UD", "ud"})}

\* The address lines for which the geolocation service has a place.
Located == {i \in AddressLines : parse_call.geo[i] # NULL}

\* C29: parse_log_lines finds the markers in any spelling; rooms holds, in
\* line order, the last word of the original text of every line with the
\* room marker; location is the first place the geolocation service gave for
\* a line with the address marker, the lines after that one are not looked
\* up, and the ones before it all are; a batch without any marker returns
\* no room, no location and disconnected = false.
C29_ParseSummary ==
    parse_call.op = "parse_log_lines" =>
        LET lines == parse_call.lines
            r == parse_call.ret
            first == CHOOSE i \in Located : \A j \in Located : i <= j
        IN /\ Len(r.rooms) = Cardinality(RoomLines)
           /\ \A i \in RoomLines :
                r.rooms[Cardinality({j \in RoomLines : j <= i})] = LastWord(lines[i])
           /\ r.location = IF Located = {} THEN NULL ELSE parse_call.geo[first]
           /\ \A i \in 1..Len(lines) :
                (\E k \in 1..Len(r.lookups) : r.lookups[k] = i) <=>
                    /\ i \in AddressLines
                    /\ Located # {} => i <= first
           /\ (\A i \in 1..Len(lines) : lines[i] = <<"A">>) =>
                r.rooms = <<>> /\ r.location = NULL /\ ~r.disconnected

\* The line with the three markers came first and gave a room, the location
\* and the disconnect; the address line after it was not looked up.
C29_Witness ==
    /\ parse_call.op = "parse_log_lines"
    /\ Len(parse_call.lines) = 2
    /\ parse_call.lines[2] = <<"UD", "SP", "x", "SP", "x", "SP", "ip1">>
    /\ parse_call.geo[2] = "loc1"
    /\ parse_call.ret.rooms = <<<<"C">>>>
    /\ parse_call.ret.location = "loc2"
    /\ parse_call.ret.disconnected
    /\ parse_call.ret.lookups = <<1>>

\* C30: end_session leaves the stored credentials as they were, whether the
\* backend accepts the request, answers success = false, or the request
\* fails: after the call session_id and password are those held before it.
C30_EndSessionKeepsCredentials ==
    api_last.op = "end_session" =>
        /\ session_id = api_last.pre_id
        /\ session_password = api_last.pre_pw

\* The backend accepted an end_session for stored credentials, which are
\* still stored after the call returned true.
C30_Witness ==
    /\ api_last.op = "end_session"
    /\ api_last.resp.kind = "object"
    /\ api_last.ret
    /\ api_last.pre_id # NoCred
    /\ session_id = api_last.pre_id
    /\ session_password = api_last.pre_pw

\* What the resolution order of the locator gives: the user's path when it
\* is a file, the newest file of the directory it names when it is one, and
\* otherwise the newest file of the default directory; nothing when the
\* directory looked into does not exist or holds no file.
Resolved ==
    LET pick(dir, d) == IF d.kind # "dir" \/ FilesOf(d) = {} THEN {NotFound}
                        ELSE {<<dir, n>> : n \in LatestFiles(d)}
    IN IF USER_LOG_PATH # "" /\ fs_user.kind = "file" THEN {<<"user", "">>}
       ELSE IF USER_LOG_PATH # "" /\ fs_user.kind = "dir" THEN pick("user", fs_user)
       ELSE pick("default", fs_default)

\* C31: the log locator returns the user's path when it is an existing
\* file, the most recently modified file of the directory it names when it
\* is a directory, and in every other case the most recently modified file
\* of the default directory; it reports not-found only when the directory
\* does not exist or is empty.
C31_ResolutionOrder == find_ret # NoFind => find_ret \in Resolved

\* Lines of the log file not yet read at offset pos.
Pending(pos) ==
    NewlinesIn(files["p1"], Len(files["p1"])) - NewlinesIn(files["p1"], pos)

C33_OneLoop ==
    /\ [](scan_threads <= 1)
    /\ [][scan_threads' > scan_threads => scan_threads = 0]_vars

\* A second thread was started after the first, which had handed a room to
\* the backend, had been stopped and had ended; it stands before its first
\* tick and is the only one.
C33_Witness ==
    /\ scan_threads = 1
    /\ s_pc = "sleep"
    /\ command = "start"
    /\ tick.out = "none"
    /\ file_position = 0
    /\ handed # {}

\* C34: a start command is never lost: after start(), also when it is called
\* after stop() while the stopped thread has not ended yet, a scan loop is
\* eventually running with alive true and the stop button enabled.
C34_StartNeverLost ==
    (command = "start") ~> (alive /\ ThreadAlive(s_pc) /\ stop_button)

\* C35: stopping and restarting the scan loop keeps its place in the current
\* log file: when the restarted loop begins with current_path set, the
\* tailer's offset is the one reached before the stop, and the recent-room
\* history and has_session are carried over.
C35_RestartKeepsPlace ==
    [][s_pc = "init" /\ s_pc' # "init" /\ current_path # NULL =>
        /\ file_position' = file_position
        /\ latest_rooms' = latest_rooms
        /\ has_session' = has_session]_vars

\* The offsets of the room lines in the batch the tick just taken read: from
\* the offset before the tick (0 when the tick located the file) to the
\* offset after it.
BatchRooms ==
    RoomOffsets(files[current_path'],
                IF tick'.located THEN 0 ELSE file_position, file_position')

\* C36: in a tick whose batch holds room lines and for which the parser
\* reports a disconnect, in whatever order the lines stand, every room of
\* the batch is handed to the backend and reset() runs after that: at the
\* end of the tick the history is empty, has_session is false and the room
\* display shows the cleared RoomInfo.
C36_RoomsThenReset ==
    [][tick' # NoTick /\ tick'.out = "read" /\ tick'.disconnected
            /\ BatchRooms # <<>> =>
        /\ \A i \in 1..Len(BatchRooms) : <<current_path', BatchRooms[i]>> \in handed'
        /\ tick'.reset
        /\ latest_rooms' = <<>>
        /\ ~has_session'
        /\ ui_room_info' = EmptyInfo]_vars

\* C37: at every tick boundary of the scan loop has_session is true exactly
\* when credentials are stored: with has_session both are set, and without
\* it both are null.
C37_SessionMatchesCredentials ==
    (tick # NoTick /\ s_pc # "crashed") =>
        /\ has_session => session_id # NoCred /\ session_password # NoCred
        /\ ~has_session => session_id = NoCred /\ session_password = NoCred

\* No name stands at two places of the list.
NoRepeat(h) == \A i, j \in 1..Len(h) : h[i] = h[j] => i = j

\* C38: the recent-room history never holds the same name twice; a room
\* that is in it when it is encountered again leaves its contents and order
\* as they were, and a room that is not is put at the end, the oldest
\* insertion going out when five are held already: eviction follows the
\* order of insertion, whatever was revisited in between.
C38_InsertionOrder ==
    /\ NoRepeat(latest_rooms)
    /\ (rep.op = "report_new_rooms" /\ Len(rep.steps) = 1) =>
        LET room == rep.rooms[1]
            before == rep.pre_hist
        IN IF \E i \in 1..Len(before) : before[i] = room
           THEN latest_rooms = before
           ELSE IF Len(before) < 5
           THEN latest_rooms = before \o <<room>>
           ELSE latest_rooms = SubSeq(before, 2, 5) \o <<room>>

\* The oldest of five rooms in the history was encountered again: the
\* history is as it was, with that room still the next to go.
C38_Witness ==
    /\ rep.op = "report_new_rooms"
    /\ Len(rep.steps) = 1
    /\ Len(rep.pre_hist) = 5
    /\ rep.rooms[1] = rep.pre_hist[1]
    /\ latest_rooms = rep.pre_hist
    /\ latest_rooms[1] = rep.rooms[1]

\* C39: an explicit relay stop takes effect: while is_syncing is false the
\* relay thread has ended and no relay connection is open.
C39_StopTakesEffect ==
    ~is_syncing => (ws_pc = "idle" /\ ~ws_open)

\* C7: get_session never returns a torn pair: the pair it returns is
\* (None, None) or the id and the password of one and the same session.
C7_NoTornPair == g_result[1] = g_result[2]

\* C8: request_session returns the backend's success flag and stores the
\* credentials only on success: after an answer with success = false (even one
\* that carries session_id and password) the stored credentials are unchanged.
C8_StoresOnlyOnSuccess ==
    (api_last.op = "request_session" /\ api_last.resp.kind = "object"
        /\ api_last.resp.keys = {"session_id", "password", "success"}) =>
      /\ ~api_last.raised
      /\ api_last.ret = api_last.resp.success
      /\ (~api_last.resp.success =>
            /\ session_id = api_last.pre_id
            /\ session_password = api_last.pre_pw)

\* The keys each call expects in the backend's answer.
ExpectedKeys(op) ==
    IF op = "request_session" THEN {"session_id", "password", "success"}
    ELSE {"success"}

\* The failure kinds C9 names: network error, malformed JSON, missing key.
IsFailure(op, resp) ==
    \/ resp.kind \in {"neterr", "badjson"}
    \/ resp.kind = "object" /\ ~(ExpectedKeys(op) \subseteq resp.keys)

\* C9: request_session and end_session fail closed: on a network error,
\* malformed JSON or a missing expected key the call returns false, raises
\* nothing and leaves the stored credentials unchanged.
C9_FailClosed ==
    (api_last.op \in {"request_session", "end_session"}
        /\ IsFailure(api_last.op, api_last.resp)) =>
      /\ ~api_last.raised
      /\ api_last.ret = FALSE
      /\ session_id = api_last.pre_id
      /\ session_password = api_last.pre_pw

====
